---- MODULE Spec2Model ----
(***************************************************************************)
(* Streaming translation / compliance pipeline of homevisit-ai.            *)
(*                                                                         *)
(* Spec           the optimized assistant (vapi_assistant_optimized.py):   *)
(*                the process-wide StreamingProcessor, the local           *)
(*                translation service with its cache, the optimized        *)
(*                compliance checker, fed by two transcript sources.       *)
(*                                                                         *)
(* SpecWebhook    the translating webhook (webhook_translator.py, and the   *)
(*                same handler in apps/api/main.py): the sessions dict, the *)
(*                DeepL-or-phrase-book translator, the literal checker.     *)
(*                                                                         *)
(* SpecTranslate  the translate operations called directly, one after the   *)
(*                other: POST /translate (apps/api/main.py), the DeepL      *)
(*                TranslationService (webhook_translator.py), the DeepL /   *)
(*                Google TranslationService (vapi_assistant.py) and the     *)
(*                LocalTranslationService (vapi_assistant_optimized.py).    *)
(*                                                                         *)
(* SpecCompliance the compliance checks called directly, one after the     *)
(*                other: OptimizedComplianceChecker.check_compliance,       *)
(*                ComplianceChecker.check (webhook_translator.py) and       *)
(*                ComplianceChecker.check_compliance (vapi_assistant.py).   *)
(*                                                                         *)
(* Each specification is one program; they share the observation           *)
(* variables (events, calls, replies) and leave the others' state alone.   *)
(*                                                                         *)
(* Texts are strings; the string operators below compute what the Python   *)
(* code computes (regex findall, strip, lower, upper, slicing, `in`).      *)
(***************************************************************************)
EXTENDS Integers, Sequences, FiniteSets, TLC

(* ------------------------------- bounds ------------------------------- *)

\* Number of transcript events received over a run.
MaxEvents == 2

\* LocalTranslationService.cache_size. The source sets 1000
\* (vapi_assistant_optimized.py:48); the model keeps the comparison
\* len(cache) < cache_size and scales the number so a full cache is reached.
cache_size == 2

\* Slice length of the text in the cache key, text[:100].
KeyPrefixLen == 100

(* ---------------------------- text operators --------------------------- *)

MinOf(S) == CHOOSE x \in S : \A y \in S : x <= y

MaxOf(S) == CHOOSE x \in S : \A y \in S : y <= x

Char(s, i) == SubSeq(s, i, i)

\* Python's `pat in text` on strings.
Contains(pat, text) ==
    \E i \in 1..(Len(text) - Len(pat) + 1) : SubSeq(text, i, i + Len(pat) - 1) = pat

\* text[:n]
Prefix(text, n) == SubSeq(text, 1, IF Len(text) < n THEN Len(text) ELSE n)

IsSpace(c) == c \in {" ", "\t", "\n", "\r"}

\* str.strip()
strip(s) ==
    LET keep == {i \in 1..Len(s) : ~IsSpace(Char(s, i))}
    IN  IF keep = {} THEN "" ELSE SubSeq(s, MinOf(keep), MaxOf(keep))

UpperChars == "ABCDEFGHIJKLMNOPQRSTUVWXYZ"

LowerChars == "abcdefghijklmnopqrstuvwxyz"

\* The character map that takes from[i] to to[i].
CharMap(from, to) ==
    [c \in {Char(from, i) : i \in 1..Len(from)} |->
        Char(to, MinOf({i \in 1..Len(from) : Char(from, i) = c}))]

ToLower == CharMap(UpperChars, LowerChars)

ToUpper == CharMap(LowerChars, UpperChars)

UnderscoreToSpace == CharMap("_", " ")

RECURSIVE MapString(_, _)
MapString(s, map) ==
    IF Len(s) = 0 THEN ""
    ELSE IF Len(s) = 1 THEN (IF s \in DOMAIN map THEN map[s] ELSE s)
    ELSE LET h == Len(s) \div 2
         IN  MapString(SubSeq(s, 1, h), map) \o MapString(SubSeq(s, h + 1, Len(s)), map)

\* str.lower()
lower(s) == MapString(s, ToLower)

\* str.upper()
upper(s) == MapString(s, ToUpper)

\* level.replace("_", " ")
replace_underscore(s) == MapString(s, UnderscoreToSpace)

IsTerminal(c) == c \in {".", "!", "?"}

\* re.findall(r'[^.!?]+[.!?]+', text) from position i on, `term` the positions
\* of the terminal characters of text: the leftmost match starts at the first
\* non-terminal character, runs over every non-terminal character and then
\* over every terminal one; the scan goes on after it.
RECURSIVE FindAllFrom(_, _, _)
FindAllFrom(text, term, i) ==
    LET n == Len(text)
        starts == (i..n) \ term
    IN  IF starts = {} THEN <<>>
        ELSE LET b == MinOf(starts)
                 terms == {j \in term : j > b}
             IN  IF terms = {} THEN <<>>
                 ELSE LET t == MinOf(terms)
                          rest == (t..n) \ term
                          e == IF rest = {} THEN n ELSE MinOf(rest) - 1
                      IN  <<SubSeq(text, b, e)>> \o FindAllFrom(text, term, e + 1)

NonEmptyText(s) == s # ""

\* StreamingProcessor._extract_sentences
extract_sentences(text) ==
    LET term == {j \in 1..Len(text) : IsTerminal(Char(text, j))}
        found == FindAllFrom(text, term, 1)
        stripped == [k \in DOMAIN found |-> strip(found[k])]
    IN  SelectSeq(stripped, NonEmptyText)

(* ------------------ external collaborators (answers) ------------------ *)

\* A KnowledgeStore.search answer: it raises, or returns the chunks by
\* descending score. Scores are in hundredths (0.8 is 80).
SearchOutcomes ==
    { [raises |-> TRUE,  results |-> <<>>],
      [raises |-> FALSE, results |-> <<>>],
      [raises |-> FALSE, results |-> <<[score |-> 60, title |-> "Hausordnung"]>>],
      [raises |-> FALSE, results |-> <<[score |-> 75, title |-> "Kaution"], [score |-> 60, title |-> "Hausordnung"]>>],
      [raises |-> FALSE, results |-> <<[score |-> 82, title |-> "Kaution"], [score |-> 75, title |-> "Kuendigung"]>>],
      [raises |-> FALSE, results |-> <<[score |-> 90, title |-> "Kaution"], [score |-> 82, title |-> "Kuendigung"]>>] }

\* What a translation backend (a local model, DeepL, Google, OpenAI) answers
\* when it succeeds: the phrase book of the repository's mock translators,
\* "[<TARGET>] text" for any other text.
backend_answer(text, source_lang, target_lang) ==
    CASE text = "Die Kaution beträgt 6 Monatsmieten." /\ source_lang = "de" /\ target_lang = "en"
            -> "The security deposit is 6 months' rent."
      [] text = "Die Miete ist 800 Euro warm." /\ source_lang = "de" /\ target_lang = "en"
            -> "The rent is 800 euros including utilities."
      [] text = "Sie müssen sofort ausziehen." /\ source_lang = "de" /\ target_lang = "en"
            -> "You must move out immediately."
      [] text = "The rent is 800 euros" /\ source_lang = "en" /\ target_lang = "de"
            -> "Die Miete ist 800 Euro."
      [] OTHER -> "[" \o upper(target_lang) \o "] " \o text

(* ------------------- OptimizedComplianceChecker ------------------------ *)

\* OptimizedComplianceChecker.risk_patterns in dict iteration order.
risk_patterns ==
    << [level |-> "red_flag", pattern |-> "6 monate"],
       [level |-> "red_flag", pattern |-> "sechs monate"],
       [level |-> "red_flag", pattern |-> "deposit more than"],
       [level |-> "red_flag", pattern |-> "no notice"],
       [level |-> "red_flag", pattern |-> "sofort"],
       [level |-> "red_flag", pattern |-> "immediate"],
       [level |-> "red_flag", pattern |-> "cash only"],
       [level |-> "red_flag", pattern |-> "bar nur"],
       [level |-> "red_flag", pattern |-> "no contract"],
       [level |-> "red_flag", pattern |-> "kein vertrag"],
       [level |-> "caution", pattern |-> "3 monate"],
       [level |-> "caution", pattern |-> "drei monate"],
       [level |-> "caution", pattern |-> "additional fees"],
       [level |-> "caution", pattern |-> "sondergebühren"],
       [level |-> "caution", pattern |-> "non-refundable"],
       [level |-> "caution", pattern |-> "nicht erstattungsfähig"] >>

\* Score above which the optimized checker's semantic tier reports a red flag.
OptimizedRedFlagScore == 80

\* FirstMatch with the iteration order reversed: the last matching pattern wins.
FirstMatch_LastWins(table, text_lower) ==
    LET hits == {i \in DOMAIN table : Contains(table[i].pattern, text_lower)}
    IN  IF hits = {} THEN 0 ELSE MaxOf(hits)

\* Index of the first pattern of `table` contained in `text_lower`, 0 if none.
FirstMatch(table, text_lower) ==
    LET hits == {i \in DOMAIN table : Contains(table[i].pattern, text_lower)}
    IN  IF hits = {} THEN 0 ELSE MinOf(hits)

\* OptimizedComplianceChecker._get_warning_message
get_warning_message(level) ==
    IF level = "red_flag" THEN "⚠ WARNING: This may violate tenant protection laws!"
    ELSE IF level = "caution" THEN "⚡ CAUTION: Verify this in writing."
    ELSE ""

\* check_compliance_searches of a checker that searches whatever matched.
check_compliance_searches_Always(text) == TRUE

\* Whether check_compliance(text) reaches the semantic search.
check_compliance_searches(text) == FirstMatch(risk_patterns, lower(text)) = 0

\* check_compliance with a caution tier below the red flag one.
check_compliance_WithCaution(text, search) ==
    LET k == FirstMatch(risk_patterns, lower(text))
    IN  IF k # 0
        THEN [risk_level |-> replace_underscore(risk_patterns[k].level),
              pattern |-> risk_patterns[k].pattern,
              warning |-> get_warning_message(risk_patterns[k].level)]
        ELSE IF ~search.raises /\ search.results # <<>>
                /\ search.results[1].score > OptimizedRedFlagScore
        THEN [risk_level |-> "red flag",
              match |-> search.results[1].title,
              warning |-> "⚠ WARNING: This may violate tenant protection laws!"]
        ELSE IF ~search.raises /\ search.results # <<>> /\ search.results[1].score > 70
        THEN [risk_level |-> "caution"]
        ELSE [risk_level |-> "normal"]

\* OptimizedComplianceChecker.check_compliance, `search` the answer of the
\* KnowledgeStore if it is asked.
check_compliance(text, search) ==
    LET k == FirstMatch(risk_patterns, lower(text))
    IN  IF k # 0
        THEN [risk_level |-> replace_underscore(risk_patterns[k].level),
              pattern |-> risk_patterns[k].pattern,
              warning |-> get_warning_message(risk_patterns[k].level)]
        ELSE IF ~search.raises /\ search.results # <<>>
                /\ search.results[1].score > OptimizedRedFlagScore
        THEN [risk_level |-> "red flag",
              match |-> search.results[1].title,
              warning |-> "⚠ WARNING: This may violate tenant protection laws!"]
        ELSE [risk_level |-> "normal"]

(* --------------------- LocalTranslationService ------------------------- *)

\* cache_key = f"{text[:100]}:{source_lang}:{target_lang}"
cache_key(text, source_lang, target_lang) ==
    Prefix(text, KeyPrefixLen) \o ":" \o source_lang \o ":" \o target_lang

EmptyDict == [k \in {} |-> ""]

DictPut(d, key, value) == [k \in DOMAIN d \cup {key} |-> IF k = key THEN value ELSE d[k]]

\* "Update cache" without the test of len(self.cache).
cache_update_Unbounded(c, key, result) == DictPut(c, key, result)

\* "Update cache": if len(self.cache) < self.cache_size: self.cache[key] = result
cache_update(c, key, result) ==
    IF Cardinality(DOMAIN c) < cache_size THEN DictPut(c, key, result) ELSE c

\* The model translate() runs for the pair, "none" for the placeholder branch.
model_for(loaded, source_lang, target_lang) ==
    IF source_lang = "de" /\ target_lang = "en" /\ loaded THEN "de_to_en"
    ELSE IF source_lang = "en" /\ target_lang = "de" /\ loaded THEN "en_to_de"
    ELSE "none"

\* The "simple placeholder" fallback of translate().
placeholder(text, target_lang) == "[" \o upper(target_lang) \o "] " \o text

(* -------------------------- StreamingProcessor ------------------------- *)

\* StreamingProcessor._generate_warning
generate_warning(compliance) ==
    IF compliance.risk_level = "red flag" THEN "⚠ WARNING: This may violate tenant protection laws!"
    ELSE IF compliance.risk_level = "caution" THEN "⚡ CAUTION: Verify this in writing."
    ELSE ""

\* The response dict process_stream returns (latency_ms, a clock reading, left out).
stream_response(translation, compliance, is_final) ==
    LET base == [translation |-> translation, compliance |-> compliance, is_final |-> is_final]
    IN  IF compliance.risk_level # "normal"
        THEN base @@ [warning |-> generate_warning(compliance)]
        ELSE base

(* ------------------------------- state -------------------------------- *)

VARIABLES
    buffer,         \* stream_processor.buffer, the one StreamingProcessor of the process
    cache,          \* translator.cache of the LocalTranslationService: key -> result
    models_loaded,  \* whether _load_models got de_to_en and en_to_de
    request_count,  \* metrics.request_count
    pending,        \* process_stream handlers suspended in run_in_executor
    events,         \* the transcript events received, in order of arrival
    calls,          \* the service calls made, in order: translate, model, check_compliance, search
    replies,        \* the replies returned, in order
    sessions,       \* webhook_translator.sessions: call id -> language preferences
    keys,           \* the API keys of the environment: which are set
    service,        \* SpecTranslate, SpecCompliance: the implementation that is called
    last,           \* ... its latest call: the arguments, what it did, what it returned
    prev,           \* ... and the call before that
    active_connections, \* manager.active_connections of the ConnectionManager
    handlers,       \* /ws/stream: websocket -> where its websocket_endpoint handler is
    landlord_chat,  \* ExchangeApp.landlord_chat: the lines of the widget, in order
    tenant_chat     \* ExchangeApp.tenant_chat

vars == <<buffer, cache, models_loaded, request_count, pending, events, calls, replies,
          sessions, keys, active_connections, handlers, landlord_chat, tenant_chat, service, last, prev>>

\* No call yet.
NoCall == [svc |-> "none"]

directVars == <<service, last, prev>>

\* No websocket has connected to /ws/stream.
NoHandlers == [w \in {} |-> "none"]

NoKeys == [deepl |-> FALSE, google |-> FALSE, openai |-> FALSE]

\* The two transcript sources: "A" is a call whose events reach POST
\* /vapi/webhook, "B" a connection to /ws/stream.
Sources == {"A", "B"}

\* What each source says, fragment by fragment.
Transcripts(src) ==
    IF src = "A"
    THEN {"", "Die Kaution", "beträgt 6 Monatsmieten.",
          "Die Kaution beträgt 3 Monatsmieten. Und die Miete?"}
    ELSE {"Sie müssen", "sofort ausziehen."}

Call(op, ev, src, idx, text) == [op |-> op, ev |-> ev, src |-> src, idx |-> idx, text |-> text]

Reply(ev, src, idx, body) == [ev |-> ev, src |-> src, idx |-> idx, body |-> body]

\* The answers the KnowledgeStore can give to check_compliance(text): none is
\* asked for when the fast tier matches.
SearchAnswers(text) ==
    IF check_compliance_searches(text) THEN SearchOutcomes
    ELSE {[raises |-> FALSE, results |-> <<>>]}

\* The calls check_compliance(text) makes, itself included.
compliance_calls(ev, src, idx, text) ==
    <<Call("check_compliance", ev, src, idx, text)>>
        \o (IF check_compliance_searches(text)
            THEN <<Call("search", ev, src, idx, text)>> ELSE <<>>)

\* The exception check_compliance(text) catches and logs when the search raises.
search_failure(ev, src, idx, text, search) ==
    IF check_compliance_searches(text) /\ search.raises
    THEN <<Call("search_raised", ev, src, idx, text)>> ELSE <<>>

\* StreamingProcessor.process_stream up to its reply or to the suspension of
\* translate() in run_in_executor. `idx` numbers the sentence in the buffer.
process_stream(src, transcript) ==
    LET ev == Len(events) + 1
        buf == buffer \o " " \o transcript
        sentences == extract_sentences(buf)
        idx == Len(sentences)
        latest_sentence == sentences[idx]
        key == cache_key(latest_sentence, "de", "en")
        translateCall == <<Call("translate", ev, src, idx, latest_sentence)>>
        checkCalls == compliance_calls(ev, src, idx, latest_sentence)
        answers == SearchAnswers(latest_sentence)
    IN  /\ buffer' = buf
        /\ \E is_final \in BOOLEAN :
            /\ events' = Append(events, [src |-> src, transcript |-> transcript, is_final |-> is_final])
            /\ IF sentences = <<>>
               THEN /\ replies' = Append(replies, Reply(ev, src, 0, [status |-> "buffering"]))
                    /\ UNCHANGED <<cache, pending, calls>>
               ELSE \E search \in answers :
                    LET compliance == check_compliance(latest_sentence, search)
                        failed == search_failure(ev, src, idx, latest_sentence, search)
                    IN  IF key \in DOMAIN cache
                        THEN /\ calls' = calls \o translateCall \o checkCalls \o failed
                             /\ replies' = Append(replies, Reply(ev, src, idx,
                                    stream_response(cache[key], compliance, is_final)))
                             /\ UNCHANGED <<cache, pending>>
                        ELSE IF model_for(models_loaded, "de", "en") # "none"
                        THEN /\ calls' = calls \o translateCall
                                    \o <<Call("model", ev, src, idx, latest_sentence)>> \o checkCalls
                                    \o failed
                             /\ pending' = pending \cup
                                    {[ev |-> ev, src |-> src, idx |-> idx,
                                      sentence |-> latest_sentence,
                                      is_final |-> is_final, compliance |-> compliance]}
                             /\ UNCHANGED <<cache, replies>>
                        ELSE /\ calls' = calls \o translateCall \o checkCalls \o failed
                             /\ cache' = cache_update(cache, key, placeholder(latest_sentence, "en"))
                             /\ replies' = Append(replies, Reply(ev, src, idx,
                                    stream_response(placeholder(latest_sentence, "en"),
                                                    compliance, is_final)))
                             /\ UNCHANGED pending

\* POST /vapi/webhook with message speech.update, of call "A".
vapi_webhook_speech_update(transcript) ==
    /\ Len(events) < MaxEvents
    /\ request_count' = request_count + 1
    /\ process_stream("A", transcript)
    /\ UNCHANGED <<models_loaded, sessions, keys, active_connections, handlers, landlord_chat, tenant_chat, directVars>>

\* /ws/stream: one message of type "transcript" of connection "B". The
\* connection's loop awaits process_stream before it receives the next message.
websocket_endpoint(transcript) ==
    /\ Len(events) < MaxEvents
    /\ \A t \in pending : t.src # "B"
    /\ process_stream("B", transcript)
    /\ UNCHANGED <<models_loaded, request_count, sessions, keys, active_connections, handlers, landlord_chat, tenant_chat, directVars>>

\* model_returns as it would be without return_exceptions: a run that raises
\* fails the whole response.
model_returns_FailsWhole(t, raises) ==
    LET result == backend_answer(t.sentence, "de", "en")
        key == cache_key(t.sentence, "de", "en")
    IN  /\ pending' = pending \ {t}
        /\ cache' = IF raises THEN cache ELSE cache_update(cache, key, result)
        /\ calls' = IF raises
                    THEN Append(calls, Call("model_raised", t.ev, t.src, t.idx, t.sentence))
                    ELSE calls
        /\ replies' = Append(replies, Reply(t.ev, t.src, t.idx,
                IF raises THEN [status |-> "error"]
                ELSE stream_response(result, t.compliance, t.is_final)))
        /\ UNCHANGED <<buffer, models_loaded, request_count, events, sessions, keys, active_connections, handlers, landlord_chat, tenant_chat, directVars>>

\* The executor finishes the model run of a suspended translate(): the rest of
\* translate() and of process_stream. A run that raises is gathered as an
\* exception and the sentence itself stands in for its translation.
model_returns(t, raises) ==
    LET result == backend_answer(t.sentence, "de", "en")
        key == cache_key(t.sentence, "de", "en")
    IN  /\ pending' = pending \ {t}
        /\ cache' = IF raises THEN cache ELSE cache_update(cache, key, result)
        /\ calls' = IF raises
                    THEN Append(calls, Call("model_raised", t.ev, t.src, t.idx, t.sentence))
                    ELSE calls
        /\ replies' = Append(replies, Reply(t.ev, t.src, t.idx,
                stream_response(IF raises THEN t.sentence ELSE result, t.compliance, t.is_final)))
        /\ UNCHANGED <<buffer, models_loaded, request_count, events, sessions, keys, active_connections, handlers, landlord_chat, tenant_chat, directVars>>

Init ==
    /\ buffer = ""
    /\ cache = EmptyDict
    /\ models_loaded \in BOOLEAN
    /\ request_count = 0
    /\ pending = {}
    /\ events = <<>>
    /\ calls = <<>>
    /\ replies = <<>>
    /\ sessions = EmptyDict
    /\ keys = NoKeys
    /\ service = "stream"
    /\ last = NoCall
    /\ prev = NoCall
    /\ active_connections = <<>>
    /\ handlers = NoHandlers
    /\ landlord_chat = <<>>
    /\ tenant_chat = <<>>

Next ==
    \/ \E transcript \in Transcripts("A") : vapi_webhook_speech_update(transcript)
    \/ \E transcript \in Transcripts("B") : websocket_endpoint(transcript)
    \/ \E t \in pending, raises \in BOOLEAN : model_returns(t, raises)

Spec == Init /\ [][Next]_vars

(* ------------- webhook_translator: translator and checker -------------- *)

\* TranslationService.translate without a DeepL key: the "mock translation".
mock_translation(text, source_lang, target_lang) ==
    CASE text = "Die Kaution beträgt 6 Monatsmieten." /\ source_lang = "de" /\ target_lang = "en"
            -> "The security deposit is 6 months' rent."
      [] text = "The rent is 800 euros" /\ source_lang = "en" /\ target_lang = "de"
            -> "Die Miete ist 800 Euro."
      [] OTHER -> "[" \o upper(target_lang) \o "] " \o text

\* How a request to a translation provider ends.
HttpOutcomes == {"200", "non200", "raise"}

\* TranslationService.translate with a DeepL key, the request ended `outcome`.
deepl_translation(text, source_lang, target_lang, outcome) ==
    IF outcome = "200" THEN backend_answer(text, source_lang, target_lang) ELSE text

\* ComplianceChecker.risks in dict iteration order.
risks ==
    << [pattern |-> "6 months", warning |-> "⚠ WARNING: Maximum 3 months deposit allowed!"],
       [pattern |-> "sofort", warning |-> "⚠ WARNING: 3-month notice period required!"],
       [pattern |-> "cash only", warning |-> "⚡ CAUTION: Bank transfer recommended!"] >>

\* check with the warning drawn from the level instead of the pattern.
check_WarningByLevel(text) ==
    LET k == FirstMatch(risks, lower(text))
        level == IF Contains("WARNING", risks[k].warning) THEN "red flag" ELSE "caution"
    IN  IF k # 0
        THEN [warning |-> generate_warning([risk_level |-> level]), risk_level |-> level]
        ELSE [risk_level |-> "normal"]

\* ComplianceChecker.check (and check_compliance of apps/api/main.py)
check(text) ==
    LET k == FirstMatch(risks, lower(text))
    IN  IF k # 0
        THEN [warning |-> risks[k].warning,
              risk_level |-> IF Contains("WARNING", risks[k].warning) THEN "red flag" ELSE "caution"]
        ELSE [risk_level |-> "normal"]

(* ------------------- webhook_translator: vapi_webhook ------------------ *)

CallIds == {"c1", "c2"}

Speakers == {"landlord", "tenant"}

Languages == {"de", "en"}

WebhookTranscripts ==
    {"", "Die Kaution beträgt 6 Monatsmieten.", "The rent is 800 euros", "cash only"}

DefaultSession == [landlord_language |-> "de", tenant_language |-> "en", current_speaker |-> "None"]

\* init_session without its test: every event starts the session afresh.
init_session_Resets(ss, call_id) == DictPut(ss, call_id, DefaultSession)

\* "Initialize session": if call_id not in sessions: sessions[call_id] = {...}
init_session(ss, call_id) ==
    IF call_id \in DOMAIN ss THEN ss ELSE DictPut(ss, call_id, DefaultSession)

\* "Detect language if needed"
detect_language(transcript, source_lang) ==
    IF \E c \in {"ä", "ö", "ü", "ß"} : Contains(c, transcript) THEN "de"
    ELSE IF \E w \in {"the", "and", "is", "you"} : Contains(w, lower(transcript)) THEN "en"
    ELSE source_lang

\* The text the speech.update handler hands to compliance.check.
checked_text(transcript, translated, source_lang) ==
    IF source_lang = "en" THEN translated ELSE transcript

WCall(op, ev, call_id, text, source_lang, target_lang) ==
    [op |-> op, ev |-> ev, call |-> call_id, text |-> text,
     source_lang |-> source_lang, target_lang |-> target_lang]

WReply(ev, call_id, body) == [ev |-> ev, call |-> call_id, body |-> body]

\* speech_reply with the warning spoken before the translation.
speech_reply_WarningFirst(transcript, translated, source_lang, target_lang) ==
    LET compliance_result == check(checked_text(transcript, translated, source_lang))
        speak_translation ==
            IF translated # transcript THEN <<[type |-> "speak", text |-> translated]>> ELSE <<>>
        speak_warning ==
            IF compliance_result.risk_level # "normal"
            THEN <<[type |-> "speak", text |-> compliance_result.warning]>> ELSE <<>>
    IN  [instructions |-> [actions |-> speak_warning \o speak_translation],
         translation |-> [original |-> transcript, translated |-> translated,
                          from |-> source_lang, to |-> target_lang],
         compliance |-> compliance_result]

\* The reply of a speech.update once the translation is there.
speech_reply(transcript, translated, source_lang, target_lang) ==
    LET compliance_result == check(checked_text(transcript, translated, source_lang))
        speak_translation ==
            IF translated # transcript THEN <<[type |-> "speak", text |-> translated]>> ELSE <<>>
        speak_warning ==
            IF compliance_result.risk_level # "normal"
            THEN <<[type |-> "speak", text |-> compliance_result.warning]>> ELSE <<>>
    IN  [instructions |-> [actions |-> speak_translation \o speak_warning],
         translation |-> [original |-> transcript, translated |-> translated,
                          from |-> source_lang, to |-> target_lang],
         compliance |-> compliance_result]

\* The reply of a translate_text function call once the translation is there.
translate_text_reply(translated) ==
    [translation |-> translated,
     instructions |-> [actions |-> <<[type |-> "speak", text |-> translated]>>]]

\* await translator.translate(text, ...) inside a handler and what follows it:
\* without a key the phrase book answers at once; with a key the handler is
\* suspended in the request to DeepL.
wt_translate_then_reply(ev, call_id, kind, text, source_lang, target_lang) ==
    LET translated == mock_translation(text, source_lang, target_lang)
        translateCall == WCall("translate", ev, call_id, text, source_lang, target_lang)
    IN  IF keys.deepl
        THEN /\ calls' = calls \o <<translateCall,
                                    WCall("deepl", ev, call_id, text, source_lang, target_lang)>>
             /\ pending' = pending \cup
                    {[ev |-> ev, call |-> call_id, kind |-> kind, text |-> text,
                      source_lang |-> source_lang, target_lang |-> target_lang]}
             /\ UNCHANGED replies
        ELSE IF kind = "speech.update"
        THEN /\ calls' = calls \o <<translateCall,
                    WCall("check", ev, call_id, checked_text(text, translated, source_lang), "", "")>>
             /\ replies' = Append(replies, WReply(ev, call_id,
                    speech_reply(text, translated, source_lang, target_lang)))
             /\ UNCHANGED pending
        ELSE /\ calls' = Append(calls, translateCall)
             /\ replies' = Append(replies, WReply(ev, call_id, translate_text_reply(translated)))
             /\ UNCHANGED pending

wt_unchanged == <<buffer, cache, models_loaded, request_count, keys, active_connections, handlers, landlord_chat, tenant_chat, directVars>>

\* vapi_webhook, message call.start
wt_call_start(call_id) ==
    /\ Len(events) < MaxEvents
    /\ events' = Append(events, [call |-> call_id, message |-> "call.start"])
    /\ sessions' = init_session(sessions, call_id)
    /\ replies' = Append(replies, WReply(Len(events) + 1, call_id, [instructions |->
            [actions |-> <<[type |-> "speak", text |-> "Hello! I'm your housing translator."]>>]]))
    /\ UNCHANGED <<calls, pending, wt_unchanged>>

\* completes_utterance that also takes a sentence boundary for an end.
completes_utterance_OnBoundary(transcript, is_final) ==
    transcript # "" /\ (is_final \/ extract_sentences(transcript) # <<>>)

\* The negation of `if not transcript or not is_final`: the event is processed.
completes_utterance(transcript, is_final) == transcript # "" /\ is_final

\* vapi_webhook, message speech.update
wt_speech_update(call_id, transcript, speaker, is_final) ==
    LET ev == Len(events) + 1
        ss == init_session(sessions, call_id)
        session == [current_speaker |-> speaker] @@ ss[call_id]
        own == IF speaker = "landlord" THEN session.landlord_language ELSE session.tenant_language
        target_lang == IF speaker = "landlord" THEN session.tenant_language ELSE session.landlord_language
        source_lang == detect_language(transcript, own)
    IN  /\ Len(events) < MaxEvents
        /\ events' = Append(events, [call |-> call_id, message |-> "speech.update",
                transcript |-> transcript, speaker |-> speaker, is_final |-> is_final])
        /\ IF ~completes_utterance(transcript, is_final)
           THEN /\ sessions' = ss
                /\ replies' = Append(replies, WReply(ev, call_id, [status |-> "processing"]))
                /\ UNCHANGED <<calls, pending>>
           ELSE /\ sessions' = [ss EXCEPT ![call_id] = session]
                /\ wt_translate_then_reply(ev, call_id, "speech.update", transcript,
                                           source_lang, target_lang)
        /\ UNCHANGED wt_unchanged

\* wt_set_language that sets the language for both roles of the call.
wt_set_language_BothRoles(call_id, lang, speaker) ==
    LET ss == init_session(sessions, call_id)
    IN  /\ Len(events) < MaxEvents
        /\ events' = Append(events, [call |-> call_id, message |-> "function.update",
                function |-> "set_language", language |-> lang, speaker |-> speaker])
        /\ sessions' = [ss EXCEPT ![call_id].landlord_language = lang,
                                  ![call_id].tenant_language = lang]
        /\ replies' = Append(replies, WReply(Len(events) + 1, call_id, [instructions |->
                [actions |-> <<[type |-> "speak",
                                text |-> "Language set to " \o lang \o " for " \o speaker]>>]]))
        /\ UNCHANGED <<calls, pending, wt_unchanged>>

\* vapi_webhook, message function.update, function set_language
wt_set_language(call_id, lang, speaker) ==
    LET ss == init_session(sessions, call_id)
    IN  /\ Len(events) < MaxEvents
        /\ events' = Append(events, [call |-> call_id, message |-> "function.update",
                function |-> "set_language", language |-> lang, speaker |-> speaker])
        /\ sessions' = IF speaker = "landlord"
                       THEN [ss EXCEPT ![call_id].landlord_language = lang]
                       ELSE [ss EXCEPT ![call_id].tenant_language = lang]
        /\ replies' = Append(replies, WReply(Len(events) + 1, call_id, [instructions |->
                [actions |-> <<[type |-> "speak",
                                text |-> "Language set to " \o lang \o " for " \o speaker]>>]]))
        /\ UNCHANGED <<calls, pending, wt_unchanged>>

\* vapi_webhook, message function.update, function translate_text
wt_translate_text(call_id, text, from_lang, to_lang) ==
    /\ Len(events) < MaxEvents
    /\ events' = Append(events, [call |-> call_id, message |-> "function.update",
            function |-> "translate_text", text |-> text, from |-> from_lang, to |-> to_lang])
    /\ sessions' = init_session(sessions, call_id)
    /\ wt_translate_then_reply(Len(events) + 1, call_id, "translate_text", text, from_lang, to_lang)
    /\ UNCHANGED wt_unchanged

\* vapi_webhook, any other message (call.end among them): {"status": "ok"}
wt_other(call_id, message) ==
    /\ Len(events) < MaxEvents
    /\ events' = Append(events, [call |-> call_id, message |-> message])
    /\ sessions' = init_session(sessions, call_id)
    /\ replies' = Append(replies, WReply(Len(events) + 1, call_id, [status |-> "ok"]))
    /\ UNCHANGED <<calls, pending, wt_unchanged>>

\* POST /vapi/set-language
set_language(call_id, speaker, language) ==
    LET ss == IF call_id \in DOMAIN sessions THEN sessions
              ELSE DictPut(sessions, call_id, [landlord_language |-> "de", tenant_language |-> "en"])
    IN  /\ Len(events) < MaxEvents
        /\ events' = Append(events, [call |-> call_id, message |-> "POST /vapi/set-language",
                language |-> language, speaker |-> speaker])
        /\ sessions' = IF speaker = "landlord"
                       THEN [ss EXCEPT ![call_id].landlord_language = language]
                       ELSE [ss EXCEPT ![call_id].tenant_language = language]
        /\ replies' = Append(replies, WReply(Len(events) + 1, call_id, [status |-> "language set"]))
        /\ UNCHANGED <<calls, pending, wt_unchanged>>

\* The request to DeepL of a suspended handler ends: the rest of translate()
\* and of the handler.
wt_deepl_returns(t, outcome) ==
    LET translated == deepl_translation(t.text, t.source_lang, t.target_lang, outcome)
    IN  /\ pending' = pending \ {t}
        /\ IF t.kind = "speech.update"
           THEN /\ calls' = Append(calls, WCall("check", t.ev, t.call,
                        checked_text(t.text, translated, t.source_lang), "", ""))
                /\ replies' = Append(replies, WReply(t.ev, t.call,
                        speech_reply(t.text, translated, t.source_lang, t.target_lang)))
           ELSE /\ replies' = Append(replies, WReply(t.ev, t.call, translate_text_reply(translated)))
                /\ UNCHANGED calls
        /\ UNCHANGED <<events, sessions, wt_unchanged>>

InitWebhook ==
    /\ buffer = ""
    /\ cache = EmptyDict
    /\ models_loaded = FALSE
    /\ request_count = 0
    /\ pending = {}
    /\ events = <<>>
    /\ calls = <<>>
    /\ replies = <<>>
    /\ sessions = EmptyDict
    /\ keys \in [deepl : BOOLEAN, google : {FALSE}, openai : {FALSE}]
    /\ service = "webhook"
    /\ last = NoCall
    /\ prev = NoCall
    /\ active_connections = <<>>
    /\ handlers = NoHandlers
    /\ landlord_chat = <<>>
    /\ tenant_chat = <<>>

NextWebhook ==
    \/ \E call_id \in CallIds : wt_call_start(call_id)
    \/ \E call_id \in CallIds, transcript \in WebhookTranscripts,
          speaker \in Speakers, is_final \in BOOLEAN :
            wt_speech_update(call_id, transcript, speaker, is_final)
    \/ \E call_id \in CallIds, lang \in Languages, speaker \in Speakers :
            wt_set_language(call_id, lang, speaker)
    \/ \E call_id \in CallIds, lang \in Languages :
            wt_translate_text(call_id, "The rent is 800 euros", "en", lang)
    \/ \E call_id \in CallIds : wt_other(call_id, "call.end")
    \/ \E call_id \in CallIds, lang \in Languages, speaker \in Speakers :
            set_language(call_id, speaker, lang)
    \/ \E t \in pending, outcome \in HttpOutcomes : wt_deepl_returns(t, outcome)

SpecWebhook == InitWebhook /\ [][NextWebhook]_vars

(* ----------------------- translate, called directly -------------------- *)

TranslateServices == {"api", "webhook_translator", "assistant", "local"}

TranslateTexts == {"Die Kaution beträgt 6 Monatsmieten.", "Guten Tag"}

LangPairs == {<<"de", "en">>, <<"en", "de">>, <<"en", "en">>}

\* How a local model run ends.
ModelOutcomes == {"ok", "raise"}

\* One translate call: its arguments, the backends it invoked with how each
\* ended, whether it looked the cache up, hit it, wrote it, and its result (or
\* that it raised).
TCall(svc, text, source_lang, target_lang, result, raised, invoked, looked, hit, wrote) ==
    [svc |-> svc, text |-> text, source_lang |-> source_lang, target_lang |-> target_lang,
     result |-> result, raised |-> raised, invoked |-> invoked,
     cache_read |-> looked, cache_hit |-> hit, cache_written |-> wrote]

Invoked(backend, outcome) == [backend |-> backend, outcome |-> outcome]

\* POST /translate of apps/api/main.py, `outcome` how the OpenAI call ends.
api_translate(text, source_language, target_language, outcome) ==
    IF source_language = target_language
    THEN TCall("api", text, source_language, target_language, text, FALSE, <<>>, FALSE, FALSE, FALSE)
    ELSE IF ~keys.openai
    THEN TCall("api", text, source_language, target_language, text, FALSE, <<>>, FALSE, FALSE, FALSE)
    ELSE IF outcome = "200"
    THEN LET content == backend_answer(text, source_language, target_language)
             translated == IF content = "" THEN text ELSE content
         IN  TCall("api", text, source_language, target_language, strip(translated), FALSE,
                   <<Invoked("openai", outcome)>>, FALSE, FALSE, FALSE)
    ELSE TCall("api", text, source_language, target_language, text, FALSE,
               <<Invoked("openai", outcome)>>, FALSE, FALSE, FALSE)

\* TranslationService.translate of webhook_translator.py (and apps/api/main.py),
\* `outcome` how the request to DeepL ends.
webhook_translate(text, source_lang, target_lang, outcome) ==
    IF ~keys.deepl
    THEN TCall("webhook_translator", text, source_lang, target_lang,
               mock_translation(text, source_lang, target_lang), FALSE, <<>>, FALSE, FALSE, FALSE)
    ELSE TCall("webhook_translator", text, source_lang, target_lang,
               deepl_translation(text, source_lang, target_lang, outcome), FALSE,
               <<Invoked("deepl", outcome)>>, FALSE, FALSE, FALSE)

\* assistant_translate with the two providers tried in the other order.
assistant_translate_GoogleFirst(text, source_lang, target_lang, deepl_outcome, google_outcome) ==
    LET deepl == IF keys.deepl THEN <<Invoked("deepl", deepl_outcome)>> ELSE <<>>
        google == IF keys.google THEN <<Invoked("google", google_outcome)>> ELSE <<>>
    IN  IF keys.google /\ google_outcome = "200"
        THEN TCall("assistant", text, source_lang, target_lang,
                   backend_answer(text, source_lang, target_lang), FALSE, google,
                   FALSE, FALSE, FALSE)
        ELSE IF keys.deepl /\ deepl_outcome = "200"
        THEN TCall("assistant", text, source_lang, target_lang,
                   backend_answer(text, source_lang, target_lang), FALSE, google \o deepl,
                   FALSE, FALSE, FALSE)
        ELSE TCall("assistant", text, source_lang, target_lang, text, FALSE, google \o deepl,
                   FALSE, FALSE, FALSE)

\* TranslationService.translate of vapi_assistant.py: DeepL, then Google, then
\* the text itself.
assistant_translate(text, source_lang, target_lang, deepl_outcome, google_outcome) ==
    LET deepl == IF keys.deepl THEN <<Invoked("deepl", deepl_outcome)>> ELSE <<>>
        google == IF keys.google THEN <<Invoked("google", google_outcome)>> ELSE <<>>
    IN  IF keys.deepl /\ deepl_outcome = "200"
        THEN TCall("assistant", text, source_lang, target_lang,
                   backend_answer(text, source_lang, target_lang), FALSE, deepl,
                   FALSE, FALSE, FALSE)
        ELSE IF keys.google /\ google_outcome = "200"
        THEN TCall("assistant", text, source_lang, target_lang,
                   backend_answer(text, source_lang, target_lang), FALSE, deepl \o google,
                   FALSE, FALSE, FALSE)
        ELSE TCall("assistant", text, source_lang, target_lang, text, FALSE, deepl \o google,
                   FALSE, FALSE, FALSE)

\* LocalTranslationService.translate run from its call to its return against
\* cache c, `outcome` how the model run ends: the call and the cache it leaves.
local_translate(c, text, source_lang, target_lang, outcome) ==
    LET key == cache_key(text, source_lang, target_lang)
        model == model_for(models_loaded, source_lang, target_lang)
        room == Cardinality(DOMAIN c) < cache_size
    IN  IF key \in DOMAIN c
        THEN [call |-> TCall("local", text, source_lang, target_lang, c[key], FALSE, <<>>,
                             TRUE, TRUE, FALSE),
              cache |-> c]
        ELSE IF model # "none" /\ outcome = "raise"
        THEN [call |-> TCall("local", text, source_lang, target_lang, "", TRUE,
                             <<Invoked(model, outcome)>>, TRUE, FALSE, FALSE),
              cache |-> c]
        ELSE IF model # "none"
        THEN [call |-> TCall("local", text, source_lang, target_lang,
                             backend_answer(text, source_lang, target_lang), FALSE,
                             <<Invoked(model, outcome)>>, TRUE, FALSE, room),
              cache |-> cache_update(c, key, backend_answer(text, source_lang, target_lang))]
        ELSE [call |-> TCall("local", text, source_lang, target_lang,
                             placeholder(text, target_lang), FALSE, <<>>, TRUE, FALSE, room),
              cache |-> cache_update(c, key, placeholder(text, target_lang))]

tr_unchanged == <<buffer, models_loaded, request_count, pending, events, calls, replies,
                  sessions, keys, active_connections, handlers, landlord_chat, tenant_chat, service>>

call_api_translate(text, pair, outcome) ==
    /\ service = "api"
    /\ last' = api_translate(text, pair[1], pair[2], outcome)
    /\ prev' = last
    /\ UNCHANGED <<cache, tr_unchanged>>

call_webhook_translate(text, pair, outcome) ==
    /\ service = "webhook_translator"
    /\ last' = webhook_translate(text, pair[1], pair[2], outcome)
    /\ prev' = last
    /\ UNCHANGED <<cache, tr_unchanged>>

call_assistant_translate(text, pair, deepl_outcome, google_outcome) ==
    /\ service = "assistant"
    /\ last' = assistant_translate(text, pair[1], pair[2], deepl_outcome, google_outcome)
    /\ prev' = last
    /\ UNCHANGED <<cache, tr_unchanged>>

call_local_translate(text, pair, outcome) ==
    /\ service = "local"
    /\ last' = local_translate(cache, text, pair[1], pair[2], outcome).call
    /\ cache' = local_translate(cache, text, pair[1], pair[2], outcome).cache
    /\ prev' = last
    /\ UNCHANGED tr_unchanged

\* The number of translate() calls that may be suspended in run_in_executor
\* at the same time.
MaxOverlap == 2

\* translate() misses the cache and suspends in `await self._run_translation`:
\* other calls run until the executor is done.
local_translate_suspends(text, pair) ==
    /\ service = "local"
    /\ cache_key(text, pair[1], pair[2]) \notin DOMAIN cache
    /\ model_for(models_loaded, pair[1], pair[2]) # "none"
    /\ Cardinality(pending) < MaxOverlap
    /\ pending' = pending \cup
            {[id |-> MinOf((1..MaxOverlap) \ {t.id : t \in pending}), text |-> text,
              source_lang |-> pair[1], target_lang |-> pair[2]]}
    /\ UNCHANGED <<buffer, cache, models_loaded, request_count, events, calls, replies,
                   sessions, keys, active_connections, handlers, landlord_chat, tenant_chat, service, last, prev>>

\* The executor is done and the suspended translate() runs to its return: the
\* "Update cache" test and the insert follow with no await in between.
local_translate_resumes(t, outcome) ==
    LET key == cache_key(t.text, t.source_lang, t.target_lang)
        model == model_for(models_loaded, t.source_lang, t.target_lang)
        result == backend_answer(t.text, t.source_lang, t.target_lang)
        room == Cardinality(DOMAIN cache) < cache_size
    IN  /\ service = "local"
        /\ pending' = pending \ {t}
        /\ prev' = last
        /\ IF outcome = "raise"
           THEN /\ last' = TCall("local", t.text, t.source_lang, t.target_lang, "", TRUE,
                                 <<Invoked(model, outcome)>>, TRUE, FALSE, FALSE)
                /\ cache' = cache
           ELSE /\ last' = TCall("local", t.text, t.source_lang, t.target_lang, result, FALSE,
                                 <<Invoked(model, outcome)>>, TRUE, FALSE, room)
                /\ cache' = cache_update(cache, key, result)
        /\ UNCHANGED <<buffer, models_loaded, request_count, events, calls, replies,
                       sessions, keys, active_connections, handlers, landlord_chat, tenant_chat, service>>

InitTranslate ==
    /\ buffer = ""
    /\ cache = EmptyDict
    /\ request_count = 0
    /\ pending = {}
    /\ events = <<>>
    /\ calls = <<>>
    /\ replies = <<>>
    /\ sessions = EmptyDict
    /\ service \in TranslateServices
    /\ models_loaded \in (IF service = "local" THEN BOOLEAN ELSE {FALSE})
    /\ keys \in [deepl : IF service \in {"webhook_translator", "assistant"} THEN BOOLEAN ELSE {FALSE},
                 google : IF service = "assistant" THEN BOOLEAN ELSE {FALSE},
                 openai : IF service = "api" THEN BOOLEAN ELSE {FALSE}]
    /\ last = NoCall
    /\ prev = NoCall
    /\ active_connections = <<>>
    /\ handlers = NoHandlers
    /\ landlord_chat = <<>>
    /\ tenant_chat = <<>>

NextTranslate ==
    \/ \E text \in TranslateTexts, pair \in LangPairs, outcome \in HttpOutcomes :
            call_api_translate(text, pair, outcome)
    \/ \E text \in TranslateTexts, pair \in LangPairs, outcome \in HttpOutcomes :
            call_webhook_translate(text, pair, outcome)
    \/ \E text \in TranslateTexts, pair \in LangPairs,
          deepl_outcome \in HttpOutcomes, google_outcome \in HttpOutcomes :
            call_assistant_translate(text, pair, deepl_outcome, google_outcome)
    \/ \E text \in TranslateTexts, pair \in LangPairs, outcome \in ModelOutcomes :
            call_local_translate(text, pair, outcome)
    \/ \E text \in TranslateTexts : local_translate_suspends(text, <<"de", "en">>)
    \/ \E t \in pending, outcome \in ModelOutcomes : local_translate_resumes(t, outcome)

SpecTranslate == InitTranslate /\ [][NextTranslate]_vars

\* Sentences a landlord may say that are longer than the slice text[:100] of
\* the cache key, and a short one.
LongTexts ==
    {"Die Kaution für diese Wohnung beträgt nach dem Mietvertrag, den wir heute gemeinsam unterschreiben, genau drei Monatsmieten.",
     "Die Kaution für diese Wohnung beträgt nach dem Mietvertrag, den wir heute gemeinsam unterschreiben, genau sechs Monatsmieten.",
     "Guten Tag"}

\* A LocalTranslationService, its models loaded or not, with an empty cache.
InitLocal ==
    /\ buffer = ""
    /\ cache = EmptyDict
    /\ request_count = 0
    /\ pending = {}
    /\ events = <<>>
    /\ calls = <<>>
    /\ replies = <<>>
    /\ sessions = EmptyDict
    /\ service = "local"
    /\ models_loaded \in BOOLEAN
    /\ keys = NoKeys
    /\ last = NoCall
    /\ prev = NoCall
    /\ active_connections = <<>>
    /\ handlers = NoHandlers
    /\ landlord_chat = <<>>
    /\ tenant_chat = <<>>

\* translate() called with sentences of any length, one call after the other.
NextLocal ==
    \E text \in LongTexts, pair \in LangPairs, outcome \in ModelOutcomes :
        call_local_translate(text, pair, outcome)

SpecLocal == InitLocal /\ [][NextLocal]_vars

(* --------------------- compliance, called directly --------------------- *)

\* ComplianceChecker.risk_patterns of vapi_assistant.py
assistant_risk_patterns ==
    << "deposit more than", "6 months deposit", "no notice period", "immediate eviction",
       "cash only", "no contract", "you must pay", "illegal fee" >>

\* Scores above which vapi_assistant's checker reports caution and red flag.
AssistantCautionScore == 70

AssistantRedFlagScore == 85

\* quick_risks = [pattern for pattern in self.risk_patterns if pattern in text_lower]
quick_risks(text_lower) ==
    SelectSeq(assistant_risk_patterns, LAMBDA pattern : Contains(pattern, text_lower))

\* ComplianceChecker.check_compliance of vapi_assistant.py on the `results`
\* qdrant.search returned.
assistant_check_compliance(text, results) ==
    LET quick == quick_risks(lower(text))
        some_above(score) == \E i \in DOMAIN results : results[i].score > score
        risk_level == IF some_above(AssistantRedFlagScore) THEN "red flag"
                      ELSE IF quick # <<>> \/ some_above(AssistantCautionScore) THEN "caution"
                      ELSE "normal"
    IN  [risk_level |-> risk_level,
         quick_matches |-> quick,
         related_rules |-> [i \in DOMAIN results |-> [title |-> results[i].title]]]

ComplianceCheckers == {"optimized", "webhook_translator", "assistant"}

ComplianceTexts ==
    {"3 Monate Kaution, cash only", "cash only, sofort", "You must pay cash only", "Guten Tag",
     "6 months deposit"}

\* One compliance check: its text, whether it asked the KnowledgeStore and for
\* what answer, and its result (or that it raised).
Assessment(svc, text, searched, search, raised, result) ==
    [svc |-> svc, text |-> text, searched |-> searched, search |-> search,
     raised |-> raised, result |-> result]

NoSearch == [raises |-> FALSE, results |-> <<>>]

NoResult == [risk_level |-> "none"]

cc_unchanged == <<buffer, cache, models_loaded, request_count, pending, events, calls, replies,
                  sessions, keys, active_connections, handlers, landlord_chat, tenant_chat, service>>

\* OptimizedComplianceChecker.check_compliance(text); a search that raises is
\* caught and the check goes on to "normal".
call_optimized_check(text, search) ==
    /\ service = "optimized"
    /\ last' = Assessment("optimized", text, check_compliance_searches(text), search, FALSE,
                          check_compliance(text, search))
    /\ prev' = last
    /\ UNCHANGED cc_unchanged

\* ComplianceChecker.check(text) of webhook_translator.py
call_webhook_check(text) ==
    /\ service = "webhook_translator"
    /\ last' = Assessment("webhook_translator", text, FALSE, NoSearch, FALSE, check(text))
    /\ prev' = last
    /\ UNCHANGED cc_unchanged

\* ComplianceChecker.check_compliance(text) of vapi_assistant.py; the search
\* is not guarded, what it raises leaves the check.
call_assistant_check(text, search) ==
    /\ service = "assistant"
    /\ last' = IF search.raises
               THEN Assessment("assistant", text, TRUE, search, TRUE, NoResult)
               ELSE Assessment("assistant", text, TRUE, search, FALSE,
                               assistant_check_compliance(text, search.results))
    /\ prev' = last
    /\ UNCHANGED cc_unchanged

\* generate_compliance_warning of vapi_assistant.py
generate_compliance_warning(compliance) ==
    IF compliance.risk_level = "red flag"
    THEN "⚠ Warning: This statement may violate tenant protection laws. Please verify before agreeing."
    ELSE IF compliance.risk_level = "caution"
    THEN "⚡ Caution: This requires clarification. Ask for written confirmation."
    ELSE ""

\* The JSON body handle_speech_update returns for a translation and its assessment.
speech_update_response(translated, compliance) ==
    IF compliance.risk_level # "normal"
    THEN [translation |-> translated, compliance |-> compliance,
          warning |-> generate_compliance_warning(compliance)]
    ELSE [translation |-> translated, compliance |-> "None"]

\* What the handler adds to the record of the check it made: that it ran, on
\* what event, the tasks it created and left unawaited at its return, whether
\* the check translate_and_check left running in the background failed, and
\* the reply ("raised" when the exception leaves the handler).
Handled(transcript, speaker, unawaited, background_raised, reply) ==
    [handler |-> TRUE, transcript |-> transcript, speaker |-> speaker,
     unawaited |-> unawaited, background_raised |-> background_raised, reply |-> reply]

\* asyncio.create_task(compliance_checker.check_compliance(translated))
background_check == <<"check_compliance">>

\* handle_speech_update of vapi_assistant.py: translate, then (the awaited)
\* compliance_checker.check_compliance on the translation.
handle_speech_update(transcript, speaker, background_raises, search) ==
    LET from_lang == IF speaker = "landlord" THEN "de" ELSE "en"
        to_lang == IF speaker = "landlord" THEN "en" ELSE "de"
        translated == assistant_translate(transcript, from_lang, to_lang, "200", "200").result
    IN  /\ service = "assistant"
        /\ last' =
            IF transcript = ""
            THEN Assessment("assistant", "", FALSE, NoSearch, FALSE, NoResult)
                    @@ Handled(transcript, speaker, <<>>, FALSE, [status |-> "no_transcript"])
            ELSE IF translated = ""
            THEN Assessment("assistant", "", FALSE, NoSearch, FALSE, NoResult)
                    @@ Handled(transcript, speaker, background_check, background_raises,
                               [translation |-> translated, compliance |-> "None"])
            ELSE IF search.raises
            THEN Assessment("assistant", translated, TRUE, search, TRUE, NoResult)
                    @@ Handled(transcript, speaker, background_check, background_raises, [status |-> "raised"])
            ELSE Assessment("assistant", translated, TRUE, search, FALSE,
                            assistant_check_compliance(translated, search.results))
                    @@ Handled(transcript, speaker, background_check, background_raises,
                               speech_update_response(translated,
                                    assistant_check_compliance(translated, search.results)))
        /\ prev' = last
        /\ UNCHANGED cc_unchanged

InitCompliance ==
    /\ buffer = ""
    /\ cache = EmptyDict
    /\ models_loaded = FALSE
    /\ request_count = 0
    /\ pending = {}
    /\ events = <<>>
    /\ calls = <<>>
    /\ replies = <<>>
    /\ sessions = EmptyDict
    /\ keys = NoKeys
    /\ service \in ComplianceCheckers
    /\ last = NoCall
    /\ prev = NoCall
    /\ active_connections = <<>>
    /\ handlers = NoHandlers
    /\ landlord_chat = <<>>
    /\ tenant_chat = <<>>

NextCompliance ==
    \/ \E text \in ComplianceTexts : \E search \in SearchAnswers(text) :
            call_optimized_check(text, search)
    \/ \E text \in ComplianceTexts : call_webhook_check(text)
    \/ \E text \in ComplianceTexts, search \in SearchOutcomes :
            call_assistant_check(text, search)
    \/ \E transcript \in {"", "You must pay cash only"}, speaker \in Speakers,
          background_raises \in BOOLEAN, search \in SearchOutcomes :
            handle_speech_update(transcript, speaker, background_raises, search)

SpecCompliance == InitCompliance /\ [][NextCompliance]_vars

(* ------------------ apps/api/main.py: /search and /chat ----------------- *)

\* The longest `messages` list of a ChatRequest that is explored.
MaxMessages == 2

\* ChatMessage: role is Literal["user", "assistant"], content any string.
ChatRoles == {"user", "assistant"}

ChatContents == {"  ", "Kaution?", " Miete? "}

ChatMessage == [role : ChatRoles, content : ChatContents]

ChatRequests == UNION {[1..n -> ChatMessage] : n \in 0..MaxMessages}

\* _latest_user_text: the messages are scanned from the last one backwards.
RECURSIVE latest_user_text(_)
latest_user_text(messages) ==
    IF messages = <<>>
    THEN ""
    ELSE LET m == messages[Len(messages)]
         IN  IF m.role = "user" /\ strip(m.content) # ""
             THEN strip(m.content)
             ELSE latest_user_text(SubSeq(messages, 1, Len(messages) - 1))

\* What a request to the API ended in: the HTTP status, the queries sent to the
\* knowledge store, the chat-model completions requested, and the kind of body.
ApiResponse(status, searched, completions, body) ==
    [status |-> status, searched |-> searched, completions |-> completions, body |-> body]

\* The try block of chat: _qdrant() raises without QDRANT_URL / QDRANT_API_KEY,
\* the search and the completion may raise, and every exception that is not an
\* HTTPException becomes a 500; a failing suggestion request is caught inside.
chat_try(user_text, search_raises, completion_raises, suggestion_raises) ==
    IF ~keys.qdrant
    THEN ApiResponse(500, <<>>, <<>>, "detail")
    ELSE IF search_raises
    THEN ApiResponse(500, <<user_text>>, <<>>, "detail")
    ELSE IF ~keys.openai
    THEN ApiResponse(200, <<user_text>>, <<>>, "citations")
    ELSE IF completion_raises
    THEN ApiResponse(500, <<user_text>>, <<"answer">>, "detail")
    ELSE ApiResponse(200, <<user_text>>, <<"answer", "suggestions">>,
                     IF suggestion_raises THEN "answer, default suggestions"
                                          ELSE "answer, suggestions")

\* chat with the check for a user message moved inside the try block and the
\* HTTPException not re-raised: the generic handler answers 500.
chat_InsideTry(messages, search_raises, completion_raises, suggestion_raises) ==
    LET user_text == latest_user_text(messages)
    IN  IF user_text = ""
        THEN ApiResponse(500, <<>>, <<>>, "detail")
        ELSE chat_try(user_text, search_raises, completion_raises, suggestion_raises)

\* POST /chat.
chat(messages, search_raises, completion_raises, suggestion_raises) ==
    LET user_text == latest_user_text(messages)
    IN  IF user_text = ""
        THEN ApiResponse(400, <<>>, <<>>, "detail")
        ELSE chat_try(user_text, search_raises, completion_raises, suggestion_raises)

\* POST /search: everything is inside the try block.
search(query, search_raises) ==
    IF ~keys.qdrant
    THEN ApiResponse(500, <<>>, <<>>, "detail")
    ELSE IF search_raises
    THEN ApiResponse(500, <<query>>, <<>>, "detail")
    ELSE ApiResponse(200, <<query>>, <<>>, "results")

ApiRequest(endpoint, request, response) ==
    [svc |-> "api", endpoint |-> endpoint, request |-> request, response |-> response]

api_unchanged == <<buffer, cache, models_loaded, request_count, pending, events, calls, replies,
                   sessions, keys, active_connections, handlers, landlord_chat, tenant_chat, service, prev>>

post_chat(messages, search_raises, completion_raises, suggestion_raises) ==
    /\ service = "api"
    /\ last' = ApiRequest("/chat", messages,
                          chat(messages, search_raises, completion_raises, suggestion_raises))
    /\ UNCHANGED api_unchanged

post_search(query, search_raises) ==
    /\ service = "api"
    /\ last' = ApiRequest("/search", query, search(query, search_raises))
    /\ UNCHANGED api_unchanged

\* The process environment holds or lacks the Qdrant pair and the OpenAI key.
InitApi ==
    /\ buffer = ""
    /\ cache = EmptyDict
    /\ models_loaded = FALSE
    /\ request_count = 0
    /\ pending = {}
    /\ events = <<>>
    /\ calls = <<>>
    /\ replies = <<>>
    /\ sessions = EmptyDict
    /\ keys \in [deepl : {FALSE}, google : {FALSE}, openai : BOOLEAN, qdrant : BOOLEAN]
    /\ service = "api"
    /\ last = NoCall
    /\ prev = NoCall
    /\ active_connections = <<>>
    /\ handlers = NoHandlers
    /\ landlord_chat = <<>>
    /\ tenant_chat = <<>>

NextApi ==
    \/ \E messages \in ChatRequests, search_raises \in BOOLEAN, completion_raises \in BOOLEAN,
          suggestion_raises \in BOOLEAN :
            post_chat(messages, search_raises, completion_raises, suggestion_raises)
    \/ \E query \in ChatContents, search_raises \in BOOLEAN : post_search(query, search_raises)

SpecApi == InitApi /\ [][NextApi]_vars

(* -------- vapi_webhook_minimal.py and replit_deploy.py: /vapi/webhook ---- *)

\* translations.get(transcript, f"[EN] {transcript}")
translations(transcript) ==
    CASE transcript = "Die Kaution beträgt 6 Monatsmieten." -> "The security deposit is 6 months' rent."
      [] transcript = "Die Miete ist 800 Euro." -> "The rent is 800 euros."
      [] transcript = "Haustiere sind nicht erlaubt." -> "Pets are not allowed."
      [] transcript = "Sie können sofort kündigen." -> "You can terminate immediately."
      [] OTHER -> "[EN] " \o transcript

\* The `risks` dict of both files, in insertion order.
minimal_risks ==
    << [pattern |-> "6 months", warning |-> "⚠ WARNING: Maximum 3 months deposit allowed!"],
       [pattern |-> "sofort", warning |-> "⚠ WARNING: 3-month notice period required!"] >>

\* The reply both files build once they translate: the warning of the first
\* pattern found in translated.lower(), or None.
translated_reply(transcript) ==
    LET translated == translations(transcript)
        hits == {i \in DOMAIN minimal_risks : Contains(minimal_risks[i].pattern, lower(translated))}
        speak == <<[type |-> "speak", text |-> translated]>>
    IN  IF hits # {}
        THEN LET warning == minimal_risks[MinOf(hits)].warning
             IN  [instructions |-> [actions |-> Append(speak, [type |-> "speak", text |-> warning])],
                  translation |-> translated,
                  compliance |-> [warning |-> warning]]
        ELSE [instructions |-> [actions |-> speak],
              translation |-> translated,
              compliance |-> [risk_level |-> "normal"]]

MinimalMessages == {"call.start", "speech.update", "call.end"}

MinimalTranscripts == {"", "Die Kaution beträgt 6 Monatsmieten.", "Sie können sofort kündigen.",
                       "Guten Tag", "Kündigung sofort"}

\* vapi_webhook of vapi_webhook_minimal.py.
minimal_vapi_webhook(message, transcript, is_final) ==
    IF message = "call.start"
    THEN [instructions |-> [actions |-> <<[type |-> "speak", text |->
            "Hello! I'm your housing translator. I'll translate between English and German."]>>]]
    ELSE IF message = "speech.update"
    THEN IF transcript = "" \/ ~is_final
         THEN [status |-> "processing"]
         ELSE translated_reply(transcript)
    ELSE [status |-> "ok"]

\* vapi_webhook of replit_deploy.py: every speech.update is translated.
replit_vapi_webhook(message, transcript) ==
    IF message = "call.start"
    THEN [instructions |-> [actions |-> <<[type |-> "speak", text |->
            "Hello! I'm your housing assistant powered by Qdrant AI."]>>]]
    ELSE IF message = "speech.update"
    THEN translated_reply(transcript)
    ELSE [status |-> "ok"]

WebhookRequest(svc, message, transcript, is_final, reply) ==
    [svc |-> svc, webhook |-> TRUE, message |-> message, transcript |-> transcript,
     is_final |-> is_final, reply |-> reply]

minimal_unchanged == <<buffer, cache, models_loaded, request_count, pending, events, calls,
                       replies, sessions, keys, active_connections, handlers, landlord_chat, tenant_chat, service>>

post_minimal_webhook(message, transcript, is_final) ==
    /\ service = "minimal"
    /\ prev' = last
    /\ last' = WebhookRequest("minimal", message, transcript, is_final,
                              minimal_vapi_webhook(message, transcript, is_final))
    /\ UNCHANGED minimal_unchanged

post_replit_webhook(message, transcript, is_final) ==
    /\ service = "replit"
    /\ prev' = last
    /\ last' = WebhookRequest("replit", message, transcript, is_final,
                              replit_vapi_webhook(message, transcript))
    /\ UNCHANGED minimal_unchanged

InitMinimal ==
    /\ buffer = ""
    /\ cache = EmptyDict
    /\ models_loaded = FALSE
    /\ request_count = 0
    /\ pending = {}
    /\ events = <<>>
    /\ calls = <<>>
    /\ replies = <<>>
    /\ sessions = EmptyDict
    /\ keys = NoKeys
    /\ service \in {"minimal", "replit"}
    /\ last = NoCall
    /\ prev = NoCall
    /\ active_connections = <<>>
    /\ handlers = NoHandlers
    /\ landlord_chat = <<>>
    /\ tenant_chat = <<>>

NextMinimal ==
    \/ \E message \in MinimalMessages, transcript \in MinimalTranscripts, is_final \in BOOLEAN :
            post_minimal_webhook(message, transcript, is_final)
    \/ \E message \in MinimalMessages, transcript \in MinimalTranscripts, is_final \in BOOLEAN :
            post_replit_webhook(message, transcript, is_final)

SpecMinimal == InitMinimal /\ [][NextMinimal]_vars

(* ------- the literal-pattern checkers of the repository, side by side ---- *)

\* LEGAL_RISKS of webhook_simple.py in dict iteration order (the last warning
\* without its leading emoji, a character outside the basic plane).
LEGAL_RISKS ==
    << [pattern |-> "6 months", warning |-> "⚠ WARNING: Maximum 3 months deposit allowed by law!"],
       [pattern |-> "sofort", warning |-> "⚠ WARNING: 3-month notice period required!"],
       [pattern |-> "cash only", warning |-> "⚡ CAUTION: Bank transfer recommended!"],
       [pattern |-> "no contract", warning |-> "RED FLAG: Always get written contract!"] >>

\* check_compliance of webhook_simple.py
simple_check_compliance(text) ==
    LET k == FirstMatch(LEGAL_RISKS, lower(text))
    IN  IF k # 0
        THEN [warning |-> LEGAL_RISKS[k].warning,
              risk_level |-> IF Contains("RED FLAG", LEGAL_RISKS[k].warning)
                             THEN "red flag" ELSE "caution"]
        ELSE [risk_level |-> "normal", warning |-> ""]

\* The `risks` dict of check_compliance of apps/api/main.py.
api_risks ==
    << [pattern |-> "6 months", warning |-> "⚠ WARNING: Maximum 3 months deposit allowed!"],
       [pattern |-> "sofort", warning |-> "⚠ WARNING: 3-month notice period required!"],
       [pattern |-> "cash only", warning |-> "⚡ CAUTION: Bank transfer recommended!"] >>

\* check_compliance of apps/api/main.py
api_check_compliance(text) ==
    LET k == FirstMatch(api_risks, lower(text))
    IN  IF k # 0
        THEN [warning |-> api_risks[k].warning,
              risk_level |-> IF Contains("WARNING", api_risks[k].warning)
                             THEN "red flag" ELSE "caution"]
        ELSE [risk_level |-> "normal"]

\* Statements handed to the checkers: patterns of their tables, alone or in a
\* sentence, and a harmless one.
CheckerTexts == {"6 months deposit", "sofort", "You must pay cash only", "no contract", "Guten Tag"}

checkers_unchanged == <<buffer, cache, models_loaded, request_count, pending, events, calls,
                        replies, sessions, keys, active_connections, handlers, landlord_chat, tenant_chat, service>>

run_optimized_checker(text, answer) ==
    /\ service = "checkers"
    /\ last' = Assessment("optimized", text, check_compliance_searches(text), answer, FALSE,
                          check_compliance(text, answer))
    /\ prev' = last
    /\ UNCHANGED checkers_unchanged

run_webhook_checker(text) ==
    /\ service = "checkers"
    /\ last' = Assessment("webhook_translator", text, FALSE, NoSearch, FALSE, check(text))
    /\ prev' = last
    /\ UNCHANGED checkers_unchanged

run_simple_checker(text) ==
    /\ service = "checkers"
    /\ last' = Assessment("webhook_simple", text, FALSE, NoSearch, FALSE,
                          simple_check_compliance(text))
    /\ prev' = last
    /\ UNCHANGED checkers_unchanged

run_api_checker(text) ==
    /\ service = "checkers"
    /\ last' = Assessment("api", text, FALSE, NoSearch, FALSE, api_check_compliance(text))
    /\ prev' = last
    /\ UNCHANGED checkers_unchanged

InitCheckers ==
    /\ buffer = ""
    /\ cache = EmptyDict
    /\ models_loaded = FALSE
    /\ request_count = 0
    /\ pending = {}
    /\ events = <<>>
    /\ calls = <<>>
    /\ replies = <<>>
    /\ sessions = EmptyDict
    /\ keys = NoKeys
    /\ service = "checkers"
    /\ last = NoCall
    /\ prev = NoCall
    /\ active_connections = <<>>
    /\ handlers = NoHandlers
    /\ landlord_chat = <<>>
    /\ tenant_chat = <<>>

NextCheckers ==
    \/ \E text \in CheckerTexts : \E answer \in SearchAnswers(text) :
            run_optimized_checker(text, answer)
    \/ \E text \in CheckerTexts : run_webhook_checker(text)
    \/ \E text \in CheckerTexts : run_simple_checker(text)
    \/ \E text \in CheckerTexts : run_api_checker(text)

SpecCheckers == InitCheckers /\ [][NextCheckers]_vars

(* ----------------- ConnectionManager and /ws/stream -------------------- *)

\* The number of websockets that connect to /ws/stream.
MaxConnections == 3

Websockets == 1..MaxConnections

\* list.remove(x): the list without the first occurrence of x.
remove(list, x) ==
    LET k == MinOf({i \in DOMAIN list : list[i] = x})
    IN  SubSeq(list, 1, k - 1) \o SubSeq(list, k + 1, Len(list))

\* ConnectionManager.connect, after websocket.accept()
connect(websocket) == Append(active_connections, websocket)

\* ConnectionManager.disconnect
disconnect(websocket) == remove(active_connections, websocket)

\* What one turn of the `while True` loop meets: the client has gone
\* (receive_text raises WebSocketDisconnect), the text is not JSON (json.loads
\* raises), a message of another type, or a transcript whose result is sent,
\* where send_text succeeds, raises WebSocketDisconnect or raises RuntimeError.
LoopOutcomes ==
    {"WebSocketDisconnect", "JSONDecodeError", "other type", "sent",
     "send WebSocketDisconnect", "send RuntimeError"}

\* except WebSocketDisconnect: the one exception websocket_endpoint handles.
caught(outcome) == outcome \in {"WebSocketDisconnect", "send WebSocketDisconnect"}

loops(outcome) == outcome \in {"other type", "sent"}

conn_unchanged == <<buffer, cache, models_loaded, request_count, pending, events, calls, replies,
                    sessions, keys, service, last, prev, landlord_chat, tenant_chat>>

\* websocket_endpoint from its call to the first receive_text.
ws_connect(websocket) ==
    /\ service = "stream"
    /\ websocket \notin DOMAIN handlers
    /\ active_connections' = connect(websocket)
    /\ handlers' = DictPut(handlers, websocket, "running")
    /\ UNCHANGED conn_unchanged

\* One turn of the loop of websocket_endpoint, to the next receive_text or to
\* the end of the handler.
ws_loop(websocket, outcome) ==
    /\ service = "stream"
    /\ websocket \in DOMAIN handlers
    /\ handlers[websocket] = "running"
    /\ active_connections' = IF caught(outcome) THEN disconnect(websocket)
                                                ELSE active_connections
    /\ handlers' = IF loops(outcome) THEN handlers
                                     ELSE DictPut(handlers, websocket, "terminated")
    /\ UNCHANGED conn_unchanged

InitConnections ==
    /\ buffer = ""
    /\ cache = EmptyDict
    /\ models_loaded = FALSE
    /\ request_count = 0
    /\ pending = {}
    /\ events = <<>>
    /\ calls = <<>>
    /\ replies = <<>>
    /\ sessions = EmptyDict
    /\ keys = NoKeys
    /\ service = "stream"
    /\ last = NoCall
    /\ prev = NoCall
    /\ active_connections = <<>>
    /\ handlers = NoHandlers
    /\ landlord_chat = <<>>
    /\ tenant_chat = <<>>

NextConnections ==
    \/ \E websocket \in Websockets : ws_connect(websocket)
    \/ \E websocket \in Websockets, outcome \in LoopOutcomes : ws_loop(websocket, outcome)

SpecConnections == InitConnections /\ [][NextConnections]_vars

(* --------------------------- exchange_app.py --------------------------- *)

\* ExchangeApp.translate, `outcome` how the request to DeepL ends when there
\* is a key; without one the "simple fallback translations".
exchange_translate(text, source_lang, target_lang, outcome) ==
    IF ~keys.deepl
    THEN CASE text = "Die Miete ist 800 Euro warm." -> "The rent is 800 euros including utilities."
           [] text = "I have a cat." -> "Ich habe eine Katze."
           [] OTHER -> "[" \o (IF target_lang = "de" THEN "DE" ELSE "EN") \o "] " \o text
    ELSE IF outcome = "200" THEN backend_answer(text, source_lang, target_lang)
    ELSE text

\* The `risks` dict of ExchangeApp.check_compliance.
exchange_risks ==
    << [pattern |-> "6 months", warning |-> "⚠ WARNING: Maximum 3 months deposit allowed!"],
       [pattern |-> "sofort", warning |-> "⚠ WARNING: 3-month notice period required!"],
       [pattern |-> "cash only", warning |-> "⚡ CAUTION: Bank transfer recommended!"] >>

\* ExchangeApp.check_compliance
exchange_check_compliance(text) ==
    LET k == FirstMatch(exchange_risks, lower(text))
    IN  IF k # 0
        THEN [warning |-> exchange_risks[k].warning,
              risk_level |-> IF Contains("WARNING", exchange_risks[k].warning)
                             THEN "red flag" ELSE "caution"]
        ELSE [risk_level |-> "normal"]

\* What the landlord and the tenant type.
LandlordMessages == {"Sie müssen sofort ausziehen.", "Die Miete ist 800 Euro warm."}

TenantMessages == {"I have a cat."}

\* add_message: one more line in the chat widget; `of` tells the message sent
\* that the line belongs to.
add_message(chat_widget, message, msg_type, of) ==
    Append(chat_widget, [text |-> message, tag |-> msg_type, of |-> of])

exchange_unchanged == <<buffer, cache, models_loaded, request_count, calls, replies, sessions,
                        keys, active_connections, handlers, service, last, prev>>

\* send_landlord_message: the line in the landlord's chat, and a thread started
\* for translate_and_send.
send_landlord_message(message) ==
    LET n == Len(events) + 1
    IN  /\ service = "exchange"
        /\ Len(events) < MaxEvents
        /\ events' = Append(events, [sender |-> "Landlord", message |-> message])
        /\ landlord_chat' = add_message(landlord_chat, "Landlord: " \o message, "sender", n)
        /\ pending' = pending \cup {[ev |-> n, sender |-> "Landlord", message |-> message,
                                      at |-> "translate", warning |-> ""]}
        /\ UNCHANGED <<tenant_chat, exchange_unchanged>>

\* send_tenant_message
send_tenant_message(message) ==
    LET n == Len(events) + 1
    IN  /\ service = "exchange"
        /\ Len(events) < MaxEvents
        /\ events' = Append(events, [sender |-> "Tenant", message |-> message])
        /\ tenant_chat' = add_message(tenant_chat, "Tenant: " \o message, "sender", n)
        /\ pending' = pending \cup {[ev |-> n, sender |-> "Tenant", message |-> message,
                                      at |-> "translate", warning |-> ""]}
        /\ UNCHANGED <<landlord_chat, exchange_unchanged>>

\* A thread's translate_and_send gets its translation and adds it to the other
\* party's chat; the landlord's thread goes on to check_compliance.
translate_and_send(t, outcome) ==
    /\ service = "exchange"
    /\ t.at = "translate"
    /\ IF t.sender = "Landlord"
       THEN LET translated == exchange_translate(t.message, "de", "en", outcome)
                compliance == exchange_check_compliance(translated)
            IN  /\ tenant_chat' = add_message(tenant_chat, "Landlord: " \o translated, "other", t.ev)
                /\ pending' = IF compliance.risk_level # "normal"
                               THEN (pending \ {t}) \cup
                                        {[t EXCEPT !.at = "warn", !.warning = compliance.warning]}
                               ELSE pending \ {t}
                /\ UNCHANGED landlord_chat
       ELSE LET translated == exchange_translate(t.message, "en", "de", outcome)
            IN  /\ landlord_chat' = add_message(landlord_chat, "Tenant: " \o translated, "other", t.ev)
                /\ pending' = pending \ {t}
                /\ UNCHANGED tenant_chat
    /\ UNCHANGED <<events, exchange_unchanged>>

\* The landlord's thread adds the warning to the tenant's chat.
translate_and_send_warns(t) ==
    /\ service = "exchange"
    /\ t.at = "warn"
    /\ tenant_chat' = add_message(tenant_chat, "⚠ " \o t.warning, "warning", t.ev)
    /\ pending' = pending \ {t}
    /\ UNCHANGED <<events, landlord_chat, exchange_unchanged>>

InitExchange ==
    /\ buffer = ""
    /\ cache = EmptyDict
    /\ models_loaded = FALSE
    /\ request_count = 0
    /\ pending = {}
    /\ events = <<>>
    /\ calls = <<>>
    /\ replies = <<>>
    /\ sessions = EmptyDict
    /\ keys \in [deepl : BOOLEAN, google : {FALSE}, openai : {FALSE}]
    /\ service = "exchange"
    /\ last = NoCall
    /\ prev = NoCall
    /\ active_connections = <<>>
    /\ handlers = NoHandlers
    /\ landlord_chat = <<>>
    /\ tenant_chat = <<>>

NextExchange ==
    \/ \E message \in LandlordMessages : send_landlord_message(message)
    \/ \E message \in TenantMessages : send_tenant_message(message)
    \/ \E t \in pending, outcome \in HttpOutcomes : translate_and_send(t, outcome)
    \/ \E t \in pending : translate_and_send_warns(t)

SpecExchange == InitExchange /\ [][NextExchange]_vars

(* =============================== claims ================================ *)

(* ----------------------- the streaming pipeline ------------------------ *)


\* The text source `src` has fed with its first n events: what a buffer of its
\* own would have received.
RECURSIVE FedUpTo(_, _)
FedUpTo(src, n) ==
    IF n = 0 THEN ""
    ELSE FedUpTo(src, n - 1)
            \o (IF events[n].src = src THEN " " \o events[n].transcript ELSE "")

IsInput(c) == c.op \in {"translate", "check_compliance"}

\* C1. Session isolation: the sentence translated and compliance-checked for a
\* source consists only of text fed by that source.
C1_SessionIsolation ==
    \A i \in DOMAIN calls :
        IsInput(calls[i]) => Contains(calls[i].text, FedUpTo(calls[i].src, calls[i].ev))

\* C2. Exactly once: no sentence of the buffer is translated twice or
\* compliance-assessed twice, whatever fragments follow it.
C2_ExactlyOnce ==
    \A i, j \in DOMAIN calls :
        (i # j /\ IsInput(calls[i]) /\ calls[i].op = calls[j].op)
            => calls[i].idx # calls[j].idx

\* The texts of the calls `op` made for event ev, in order.
TextsOf(op, ev) ==
    LET Hit(c) == c.op = op /\ c.ev = ev
        hits == SelectSeq(calls, Hit)
    IN  [k \in DOMAIN hits |-> hits[k].text]

\* C3. Segmenter ordering: a first fragment with n >= 2 sentence boundaries has
\* each of its n sentences translated and compliance-checked, left to right.
C3_SegmenterOrdering ==
    (/\ Len(events) >= 1
     /\ Len(extract_sentences(events[1].transcript)) >= 2
     /\ \A t \in pending : t.ev # 1)
        => /\ TextsOf("translate", 1) = extract_sentences(events[1].transcript)
           /\ TextsOf("check_compliance", 1) = extract_sentences(events[1].transcript)

\* C4. Bounded buffer: a sentence that process_stream has emitted is no longer
\* in the buffer.
C4_EmittedSentenceLeavesBuffer ==
    \A i \in DOMAIN calls :
        calls[i].op = "check_compliance" => ~Contains(calls[i].text, buffer)

\* C10. Empty input: a speech.update with an empty transcript and is_final set
\* makes no translation call and no compliance call and gets no result.
C10_EmptyFinalDoesNothing ==
    \A n \in DOMAIN events :
        (events[n].transcript = "" /\ events[n].is_final)
            => /\ \A i \in DOMAIN calls : calls[i].ev # n
               /\ \A i \in DOMAIN replies :
                    replies[i].ev = n => replies[i].body = [status |-> "buffering"]

(* -------------------------- the webhook -------------------------------- *)

IsSpeechReply(r) == "translation" \in DOMAIN r.body /\ "compliance" \in DOMAIN r.body

\* C5. Compliance is checked on English-equivalent text: a completed
\* speech.update has its compliance computed on the transcript when the source
\* language is English and on the translation otherwise; the landlord's "Die
\* Kaution beträgt 6 Monatsmieten.", translated to "The security deposit is 6
\* months' rent.", is answered with a red flag and a non-empty warning.
C5_ComplianceOnEnglishText ==
    \A i \in DOMAIN replies :
        IsSpeechReply(replies[i]) =>
            LET tr == replies[i].body.translation
                comp == replies[i].body.compliance
            IN  /\ \A j \in DOMAIN calls :
                     (calls[j].op = "check" /\ calls[j].ev = replies[i].ev)
                        => calls[j].text = IF tr.from = "en" THEN tr.original ELSE tr.translated
                /\ (/\ tr.original = "Die Kaution beträgt 6 Monatsmieten."
                    /\ tr.translated = "The security deposit is 6 months' rent.")
                        => /\ comp.risk_level = "red flag"
                           /\ "warning" \in DOMAIN comp
                           /\ comp.warning # ""

(* ------------------------------ translate ------------------------------ *)

\* C6. Same-language no-op: a translate call with source = target returns its
\* text, invokes no backend or model and neither reads nor writes the cache.
C6_SameLanguageNoOp ==
    (last # NoCall /\ last.source_lang = last.target_lang)
        => /\ ~last.raised
           /\ last.result = last.text
           /\ last.invoked = <<>>
           /\ ~last.cache_read
           /\ ~last.cache_written

SameArguments(a, b) ==
    /\ a.svc = b.svc
    /\ a.text = b.text
    /\ a.source_lang = b.source_lang
    /\ a.target_lang = b.target_lang

\* C7. Cache idempotence: of two consecutive calls translate(t, A, B) of the
\* LocalTranslationService the second returns what the first returned and
\* invokes no model.
C7_CacheIdempotence ==
    (/\ prev # NoCall
     /\ prev.svc = "local"
     /\ SameArguments(prev, last)
     /\ ~prev.raised)
        => /\ ~last.raised
           /\ last.result = prev.result
           /\ last.invoked = <<>>

\* No backend delivered a translation in call c: each one it invoked failed,
\* or none was there to invoke.
NoBackendSucceeded(c) ==
    /\ ~c.cache_hit
    /\ \A i \in DOMAIN c.invoked : c.invoked[i].outcome \notin {"200", "ok"}

\* C8. Degraded path: a translate call whose backends all fail, or that has
\* none, returns its text unchanged and leaves no cache entry of its own.
C8_DegradedPath ==
    (last # NoCall /\ NoBackendSucceeded(last))
        => /\ ~last.raised
           /\ last.result = last.text
           /\ ~last.cache_written

(* ------------------------------ compliance ----------------------------- *)

\* The rule table of a checker as pattern -> level, in iteration order. The
\* optimized table spells its levels with "_", the webhook table holds
\* warnings that tell the level, vapi_assistant's list holds patterns only and
\* its check gives a matched pattern "caution".
RuleTable(svc) ==
    IF svc = "optimized"
    THEN [i \in DOMAIN risk_patterns |->
            [pattern |-> risk_patterns[i].pattern,
             level |-> IF risk_patterns[i].level = "red_flag" THEN "red flag" ELSE "caution"]]
    ELSE IF svc = "webhook_translator"
    THEN [i \in DOMAIN risks |->
            [pattern |-> risks[i].pattern,
             level |-> IF Contains("WARNING", risks[i].warning) THEN "red flag" ELSE "caution"]]
    ELSE [i \in DOMAIN assistant_risk_patterns |->
            [pattern |-> assistant_risk_patterns[i], level |-> "caution"]]

Matches(a, k) == Contains(RuleTable(a.svc)[k].pattern, lower(a.text))

HasFastPattern(a) == a # NoCall /\ \E k \in DOMAIN RuleTable(a.svc) : Matches(a, k)

\* The level of the first pattern, in table order, that assessment a's text contains.
FirstLevel(a) ==
    LET k == CHOOSE k \in DOMAIN RuleTable(a.svc) :
                    Matches(a, k) /\ \A j \in 1..(k - 1) : ~Matches(a, j)
    IN  RuleTable(a.svc)[k].level

C11_FinalFlush ==
    \A i \in DOMAIN replies :
        LET e == events[replies[i].ev]
        IN  (e.is_final /\ strip(e.transcript) # "")
                => /\ replies[i].body # [status |-> "buffering"]
                   /\ (replies[i].ev = Len(events) /\ extract_sentences(buffer) = <<>>)
                            => strip(buffer) = ""

HasFailure(op, ev) == \E j \in DOMAIN calls : calls[j].op = op /\ calls[j].ev = ev

\* What translate(sentence, "de", "en") returns when nothing fails.
RealTranslation(sentence) ==
    IF models_loaded THEN backend_answer(sentence, "de", "en") ELSE placeholder(sentence, "en")

\* C12. Branch failure is isolated: when for a sentence the model run alone
\* raises, the response carries the sentence itself as translation and the
\* checker's real result; when the search alone raises, it carries the real
\* translation and risk_level "normal"; in neither case is it an error status.
C12_BranchFailureIsolated ==
    \A i \in DOMAIN replies :
        LET r == replies[i]
            sentence == TextsOf("translate", r.ev)[1]
            mr == HasFailure("model_raised", r.ev)
            sr == HasFailure("search_raised", r.ev)
        IN  /\ (mr /\ ~sr) =>
                /\ "status" \notin DOMAIN r.body
                /\ r.body.translation = sentence
                /\ "risk_level" \in DOMAIN r.body.compliance
                /\ ~check_compliance_searches(sentence)
                        => r.body.compliance = check_compliance(sentence, NoSearch)
            /\ (sr /\ ~mr) =>
                /\ "status" \notin DOMAIN r.body
                /\ r.body.translation = RealTranslation(sentence)
                /\ r.body.compliance = [risk_level |-> "normal"]

\* The model run for a sentence with a red flag pattern raised and the
\* sentence was answered.
C12_Witness ==
    \E i \in DOMAIN replies :
        /\ HasFailure("model_raised", replies[i].ev)
        /\ "compliance" \in DOMAIN replies[i].body
        /\ replies[i].body.compliance.risk_level = "red flag"

(* ------------------------ compliance, continued ------------------------ *)

\* C13. Knowledge-store failure is non-fatal: a compliance check whose search
\* raises returns risk level "normal" with no related chunks, and the
\* speech.update handler that made the check returns its normal reply.
C13_SearchFailureNonFatal ==
    (last # NoCall /\ last.searched /\ last.search.raises)
        => /\ ~last.raised
           /\ last.result.risk_level = "normal"
           /\ "related_rules" \in DOMAIN last.result => last.result.related_rules = <<>>
           /\ "handler" \in DOMAIN last => "translation" \in DOMAIN last.reply

(* ------------------------- the webhook, continued ---------------------- *)

IsSpeechUpdate(n) == events[n].message = "speech.update"

\* C14. FIFO per session: of two speech.update events of one call the earlier
\* is answered first, also when the later arrives while the earlier one's
\* translation is in flight.
C14_FifoPerSession ==
    /\ \A i, j \in DOMAIN replies :
            (/\ i < j
             /\ replies[i].call = replies[j].call
             /\ IsSpeechUpdate(replies[i].ev)
             /\ IsSpeechUpdate(replies[j].ev))
                => replies[i].ev < replies[j].ev
    /\ \A t \in pending : \A j \in DOMAIN replies :
            (/\ t.kind = "speech.update"
             /\ replies[j].call = t.call
             /\ IsSpeechUpdate(replies[j].ev))
                => replies[j].ev < t.ev

\* C15. Same-session serialization: while the handler of an event is between
\* its first read of the session and its reply, no other handler of the same
\* call id runs.
C15_SameSessionSerialized ==
    \A t \in pending : \A n \in DOMAIN events :
        n > t.ev => events[n].call # t.call

\* C16. Session release: once call.end of a call id has been handled the
\* session store holds no session for it.
C16_SessionReleased ==
    (events # <<>> /\ events[Len(events)].message = "call.end")
        => events[Len(events)].call \notin DOMAIN sessions

RoleLanguage(session, role) ==
    IF role = "landlord" THEN session.landlord_language ELSE session.tenant_language

OtherRole(role) == IF role = "landlord" THEN "tenant" ELSE "landlord"

\* C17. Languages come from the session map: a completed speech.update is
\* translated, and reported, from the session's language of the speaker's role
\* to that of the other role, whatever its transcript. (Stated of the reply to
\* the latest event: the session is then as the handler found it.)
C17_LanguagesFromSession ==
    \A i \in DOMAIN replies :
        (IsSpeechReply(replies[i]) /\ replies[i].ev = Len(events)) =>
            LET e == events[replies[i].ev]
                tr == replies[i].body.translation
            IN  /\ tr.from = RoleLanguage(sessions[e.call], e.speaker)
                /\ tr.to = RoleLanguage(sessions[e.call], OtherRole(e.speaker))
                /\ \A j \in DOMAIN calls :
                        (calls[j].op = "translate" /\ calls[j].ev = replies[i].ev)
                            => /\ calls[j].source_lang = tr.from
                               /\ calls[j].target_lang = tr.to

\* The events of call c that set the language of `role`.
LanguageSettings(c, role) ==
    {n \in DOMAIN events : /\ events[n].call = c
                           /\ "language" \in DOMAIN events[n]
                           /\ events[n].speaker = role}

\* The language `role` has in call c after the events so far.
LanguageSet(c, role, default) ==
    IF LanguageSettings(c, role) = {} THEN default
    ELSE events[MaxOf(LanguageSettings(c, role))].language

\* C18. Get-or-create sessions: a call id that had an event of any type has a
\* session, with landlord = de and tenant = en unless set_language set them,
\* and keeps what was set through every later event; every event is handled.
C18_GetOrCreateSessions ==
    /\ \A n \in DOMAIN events :
        LET c == events[n].call
        IN  /\ c \in DOMAIN sessions
            /\ sessions[c].landlord_language = LanguageSet(c, "landlord", "de")
            /\ sessions[c].tenant_language = LanguageSet(c, "tenant", "en")
            /\ \/ \E i \in DOMAIN replies : replies[i].ev = n
               \/ \E t \in pending : t.ev = n
    /\ \A c \in DOMAIN sessions : \E n \in DOMAIN events : events[n].call = c

\* The landlord's language of a call was set to en and a call.start of the
\* same call came after it.
C18_Witness ==
    /\ Len(events) = 2
    /\ "language" \in DOMAIN events[1]
    /\ events[1].speaker = "landlord"
    /\ events[1].language = "en"
    /\ events[2].message = "call.start"
    /\ events[2].call = events[1].call
    /\ sessions[events[2].call].landlord_language = "en"

HasBoundary(transcript) == \E k \in 1..Len(transcript) : IsTerminal(Char(transcript, k))

RepliesTo(n) == {i \in DOMAIN replies : replies[i].ev = n}

C20_InsertWithEviction ==
    (last # NoCall /\ last.svc = "local" /\ last.cache_read /\ ~last.cache_hit /\ ~last.raised)
        => LET key == cache_key(last.text, last.source_lang, last.target_lang)
           IN  /\ key \in DOMAIN cache
               /\ cache[key] = last.result
               /\ Cardinality(DOMAIN cache) <= cache_size

Backends(c) == [i \in DOMAIN c.invoked |-> c.invoked[i].backend]

\* C21. Backend fallback order: the DeepL / Google TranslationService asks
\* DeepL first if it is configured, Google only if it is configured and DeepL
\* is not or did not answer 200, nothing after a backend that answered 200;
\* it returns the answer of the backend that answered 200 and else its text.
C21_BackendFallbackOrder ==
    (last # NoCall /\ last.svc = "assistant") =>
        LET inv == last.invoked
            deeplFailed == ~keys.deepl \/ inv[1].outcome # "200"
        IN  /\ ~last.raised
            /\ Backends(last) = (IF keys.deepl THEN <<"deepl">> ELSE <<>>)
                                    \o (IF keys.google /\ deeplFailed THEN <<"google">> ELSE <<>>)
            /\ \A i \in 1..(Len(inv) - 1) : inv[i].outcome # "200"
            /\ last.result =
                    IF inv # <<>> /\ inv[Len(inv)].outcome = "200"
                    THEN backend_answer(last.text, last.source_lang, last.target_lang)
                    ELSE last.text

\* DeepL failed, Google was asked after it and its answer was returned.
C21_Witness ==
    /\ last # NoCall
    /\ last.svc = "assistant"
    /\ Len(last.invoked) = 2
    /\ last.invoked[1].outcome # "200"
    /\ last.invoked[2] = Invoked("google", "200")
    /\ last.result # last.text

(* ------------------------ compliance, continued ------------------------ *)

CheckMade(a) == "handler" \in DOMAIN a => a.transcript # ""

AnyAbove(results, score) == \E i \in DOMAIN results : results[i].score > score

\* The level the two thresholds 0.85 and 0.7 give to the chunks returned.
ThresholdLevel(results) ==
    IF AnyAbove(results, AssistantRedFlagScore) THEN "red flag"
    ELSE IF AnyAbove(results, AssistantCautionScore) THEN "caution"
    ELSE "normal"

SemanticTier(a) ==
    /\ a # NoCall
    /\ a.svc \in {"optimized", "assistant"}
    /\ ~HasFastPattern(a)
    /\ a.searched
    /\ ~a.search.raises

\* C23 as stated. Semantic-tier thresholds: with no fast-tier pattern matched
\* the level is "red flag" if any returned chunk scores above 0.85, else
\* "caution" if any scores above 0.7, else "normal".
C23_SemanticThresholds ==
    SemanticTier(last) =>
        /\ ~last.raised
        /\ last.result.risk_level = ThresholdLevel(last.search.results)

\* C23 as amended. vapi_assistant's checker applies the two thresholds 0.85
\* and 0.7 to all the returned chunks; the optimized checker looks at the top
\* chunk only, answers "red flag" if it scores above 0.8 and "normal" if not,
\* and never answers "caution" from the semantic tier.
C23_SemanticThresholdsByChecker ==
    SemanticTier(last) =>
        /\ ~last.raised
        /\ last.result.risk_level =
                IF last.svc = "assistant" THEN ThresholdLevel(last.search.results)
                ELSE IF last.search.results # <<>>
                        /\ last.search.results[1].score > OptimizedRedFlagScore
                THEN "red flag" ELSE "normal"

\* The optimized checker got a top chunk scoring between 0.8 and 0.85 and
\* answered "red flag".
C23_Witness ==
    /\ SemanticTier(last)
    /\ last.svc = "optimized"
    /\ last.search.results # <<>>
    /\ last.search.results[1].score > OptimizedRedFlagScore
    /\ ~AnyAbove(last.search.results, AssistantRedFlagScore)
    /\ last.result.risk_level = "red flag"

\* The warning an assessment carries, "" if it carries none.
WarningOf(a) == IF "warning" \in DOMAIN a.result THEN a.result.warning ELSE ""

Warned(a) ==
    /\ a # NoCall
    /\ a.svc \in {"optimized", "webhook_translator"}
    /\ ~a.raised

WarningPresence(a) ==
    IF a.result.risk_level = "normal" THEN WarningOf(a) = "" ELSE WarningOf(a) # ""

PatternWarning(a) ==
    LET k == CHOOSE k \in DOMAIN risks :
                    Matches(a, k) /\ \A j \in 1..(k - 1) : ~Matches(a, j)
    IN  risks[k].warning

C25_FanInBeforeResponse ==
    (last # NoCall /\ "handler" \in DOMAIN last /\ last.transcript # "")
        => /\ last.unawaited = <<>>
           /\ "translation" \in DOMAIN last.reply => last.searched

(* --------------------------- the HTTP API ------------------------------ *)

IsChat == last # NoCall /\ "endpoint" \in DOMAIN last /\ last.endpoint = "/chat"

NonBlankUser(m) == m.role = "user" /\ strip(m.content) # ""

\* C26 (invalid chat input): a POST /chat without a non-blank user message is
\* answered 400 and sends nothing to the knowledge store or the chat model;
\* any other POST /chat that searches does so with the stripped content of the
\* last non-blank user message.
C26_InvalidChatInput ==
    IsChat =>
        LET messages == last.request
            users == {i \in DOMAIN messages : NonBlankUser(messages[i])}
        IN  IF users = {}
            THEN /\ last.response.status = 400
                 /\ last.response.searched = <<>>
                 /\ last.response.completions = <<>>
            ELSE /\ last.response.status # 400
                 /\ \A i \in DOMAIN last.response.searched :
                        last.response.searched[i] = strip(messages[MaxOf(users)].content)

\* A /chat whose only user message is blank, next to a non-blank assistant
\* message, was refused with 400 while the knowledge store was configured.
C26_Witness ==
    /\ IsChat
    /\ keys.qdrant
    /\ \E i, j \in DOMAIN last.request :
            /\ last.request[i].role = "user" /\ last.request[i].content = "  "
            /\ last.request[j].role = "assistant" /\ strip(last.request[j].content) # ""
    /\ last.response.status = 400

\* The last translate call needed a provider whose key is absent: POST
\* /translate between two languages without OPENAI_API_KEY, or
\* TranslationService.translate without DEEPL_API_KEY.
NeedsAbsentKey ==
    /\ last # NoCall
    /\ \/ last.svc = "api" /\ last.source_lang # last.target_lang /\ ~keys.openai
       \/ last.svc = "webhook_translator" /\ ~keys.deepl

\* C27 (missing configuration is explicit): a translate call that needs a
\* provider whose key is absent ends in an error, never in a result.
C27_MissingConfigurationExplicit == NeedsAbsentKey => last.raised

\* The last request was a speech.update that was translated and answered.
CompletedUtterance ==
    /\ last # NoCall
    /\ last.message = "speech.update"
    /\ "translation" \in DOMAIN last.reply

\* C28 (reply shape): the reply to a speech.update that completed an utterance
\* has a compliance object whose risk_level is "normal", "caution" or
\* "red flag", whether or not a risk pattern matched.
C28_ReplyShape ==
    CompletedUtterance =>
        /\ "compliance" \in DOMAIN last.reply
        /\ "risk_level" \in DOMAIN last.reply.compliance
        /\ last.reply.compliance.risk_level \in {"normal", "caution", "red flag"}

\* C29 (cache capacity): whatever translate calls ran, one after the other or
\* overlapping, the cache holds at most cache_size entries.
C29_CacheCapacity == Cardinality(DOMAIN cache) <= cache_size

\* The cache is full, and a translate call that had been suspended together
\* with another one returned a result for a key that found no room.
C29_Witness ==
    /\ Cardinality(DOMAIN cache) = cache_size
    /\ pending # {}
    /\ last # NoCall /\ last.svc = "local"
    /\ last.invoked # <<>> /\ ~last.raised /\ ~last.cache_written
    /\ cache_key(last.text, last.source_lang, last.target_lang) \notin DOMAIN cache

\* Two suspended translate() calls are for the same (text, source, target).
SameKey(t1, t2) ==
    /\ t1.text = t2.text
    /\ t1.source_lang = t2.source_lang
    /\ t1.target_lang = t2.target_lang

\* C30 (no duplicate backend work under overlap): of the translate calls that
\* are suspended in a model run at the same time, no two are for the same
\* (text, source, target): the model runs at most once per key.
C30_NoDuplicateBackendWork ==
    service = "local" => \A t1, t2 \in pending : SameKey(t1, t2) => t1 = t2

\* What translate() computes for call c when it does not answer from the cache.
Computed(c) ==
    IF model_for(models_loaded, c.source_lang, c.target_lang) # "none"
    THEN backend_answer(c.text, c.source_lang, c.target_lang)
    ELSE placeholder(c.text, c.target_lang)

\* C31 (cache hits are exact): a translate call answered from the cache
\* returns the translation computed for exactly its text and language pair.
C31_CacheHitsExact ==
    (last # NoCall /\ last.svc = "local" /\ last.cache_hit) => last.result = Computed(last)

\* C32 (source and target stay distinct): while the landlord's and the tenant's
\* language of a session differ, a completed speech.update of that session is
\* translated between two different languages. (Stated of the reply to the
\* latest event: the session is then as the handler found it.)
C32_SourceTargetDistinct ==
    \A i \in DOMAIN replies :
        (IsSpeechReply(replies[i]) /\ replies[i].ev = Len(events)) =>
            LET session == sessions[events[replies[i].ev].call]
                tr == replies[i].body.translation
            IN  session.landlord_language # session.tenant_language => tr.from # tr.to

\* Assessment a was made from the literal patterns alone.
LiteralTier(a) == a # NoCall /\ ~a.searched

\* C33 (the checker variants agree): two literal-pattern checks of the same
\* text, by whichever checkers, give the same risk level.
C33_CheckersAgree ==
    (LiteralTier(prev) /\ LiteralTier(last) /\ prev.text = last.text)
        => prev.result.risk_level = last.result.risk_level

(* --------------------------- /ws/stream -------------------------------- *)

\* C34 (connection bookkeeping): active_connections holds exactly the
\* websockets whose /ws/stream handler is still running.
C34_ConnectionBookkeeping ==
    {active_connections[i] : i \in DOMAIN active_connections}
        = {w \in DOMAIN handlers : handlers[w] = "running"}

\* The event this step received is a function.update calling `function`.
Received(function) ==
    /\ Len(events') = Len(events) + 1
    /\ events'[Len(events')].message = "function.update"
    /\ events'[Len(events')].function = function

\* The session call c has, or the one its next event creates for it.
SessionOf(c) == IF c \in DOMAIN sessions THEN sessions[c] ELSE DefaultSession

\* C35 (frame of set_language): a set_language function.update for call c and
\* speaker s sets the language of the role of s in the session of c and
\* leaves the other role's language, the current speaker and every other
\* call's session as they were; translate_text leaves every language as it was.
C35_SetLanguageFrame ==
    [][LET e == events'[Len(events')]
           role == IF e.speaker = "landlord" THEN "landlord" ELSE "tenant"
       IN  /\ Received("set_language") =>
                /\ DOMAIN sessions' = DOMAIN sessions \cup {e.call}
                /\ \A c \in DOMAIN sessions : c # e.call => sessions'[c] = sessions[c]
                /\ DOMAIN sessions'[e.call] = DOMAIN SessionOf(e.call)
                /\ sessions'[e.call][role \o "_language"] = e.language
                /\ \A field \in DOMAIN SessionOf(e.call) \ {role \o "_language"} :
                        sessions'[e.call][field] = SessionOf(e.call)[field]
           /\ Received("translate_text") =>
                /\ DOMAIN sessions' = DOMAIN sessions \cup {e.call}
                /\ \A c \in DOMAIN sessions' : sessions'[c] = SessionOf(c)]_vars

\* The tenant's language of one call was set after the landlord's language of
\* the other call had been set to one that is not its default.
C35_Witness ==
    /\ Len(events) = 2
    /\ \A n \in 1..2 : events[n].message = "function.update" /\ events[n].function = "set_language"
    /\ events[1].call # events[2].call
    /\ events[1].speaker = "landlord" /\ events[1].language = "en"
    /\ events[2].speaker = "tenant" /\ events[2].language = "de"
    /\ sessions[events[1].call].landlord_language = "en"
    /\ sessions[events[2].call].tenant_language = "de"

\* The speak actions among `actions` that say `text`.
Speaking(actions, text) == {k \in DOMAIN actions : actions[k] = [type |-> "speak", text |-> text]}

\* C36 (speak actions of a completed speech.update reply): the warning is
\* spoken exactly when the risk level is not "normal", and then the compliance
\* result carries it; the translation is spoken exactly when it differs from
\* the transcript; nothing else is spoken, and the translation comes first.
C36_SpeakActions ==
    \A i \in DOMAIN replies :
        IsSpeechReply(replies[i]) =>
            LET body == replies[i].body
                actions == body.instructions.actions
                tr == body.translation
                risky == body.compliance.risk_level # "normal"
                differs == tr.translated # tr.original
            IN  /\ risky => "warning" \in DOMAIN body.compliance
                /\ Len(actions) = (IF risky THEN 1 ELSE 0) + (IF differs THEN 1 ELSE 0)
                /\ differs => Speaking(actions, tr.translated) = {1}
                /\ risky => Speaking(actions, body.compliance.warning) = {Len(actions)}

\* A reply that speaks a translation and then a warning, and one that speaks
\* neither because the translator gave the transcript back.
C36_Witness ==
    \E i, j \in DOMAIN replies :
        /\ IsSpeechReply(replies[i]) /\ IsSpeechReply(replies[j])
        /\ Len(replies[i].body.instructions.actions) = 2
        /\ replies[i].body.compliance.risk_level # "normal"
        /\ replies[j].body.instructions.actions = <<>>

(* -------------------------- the exchange app --------------------------- *)

\* C37 (chat order in the exchange app): in either chat the translations
\* stand in the order in which their messages were sent, and a warning stands
\* directly after the translation of the message it was produced for.
C37_ChatOrder ==
    /\ \A widget \in {landlord_chat, tenant_chat} : \A i, j \in DOMAIN widget :
            (i < j /\ widget[i].tag = "other" /\ widget[j].tag = "other")
                => widget[i].of < widget[j].of
    /\ \A k \in DOMAIN tenant_chat :
            tenant_chat[k].tag = "warning"
                => /\ k > 1
                   /\ tenant_chat[k - 1].tag = "other"
                   /\ tenant_chat[k - 1].of = tenant_chat[k].of

====
